---------------------------- MODULE ServerFilter ----------------------------
(***************************************************************************)
(* The server's own filter, "port 4567 and udp", from pcap_compile to the  *)
(* verdict on a frame.  The gen_ functions of gencode.c are given as the   *)
(* expressions they build, with the blocks in the order the code combines  *)
(* them; Emit makes the calls of gen_and, gen_or and gen_not, and Layout   *)
(* the program.  The device is Ethernet (DLT_EN10MB) with fixed offsets.   *)
(*                                                                         *)
(* The module is also the whole of the filter: what meets the machine is   *)
(* the program of an expression (FilterCompiler), of the server's filter,  *)
(* or one that pcap_setfilter is given from elsewhere.                     *)
(*                                                                         *)
(* A frame is the bytes that were captured of it: the filter also decides  *)
(* about frames that end inside a header.                                  *)
(***************************************************************************)
EXTENDS FilterCompiler

CONSTANTS PORT,     \* 4567, TEST_PORT
          LENS,     \* bound: numbers of bytes captured
          HLS,      \* bound: first bytes of the network header
          FRAGS,    \* bound: values of the IPv4 fragment field
          PROTOS    \* bound: protocols of a frame

ASSUME FilterAssumption ==
    /\ PORT \in 0 .. 65535 /\ LENS \subseteq Nat /\ HLS \subseteq 0 .. 255
    /\ FRAGS \subseteq 0 .. 65535 /\ PROTOS \subseteq 0 .. 255

\* init_linktype for DLT_EN10MB
off_linktype == 12
off_macpl == 14

ETHERTYPE_IP == 2048
ETHERTYPE_IPV6 == 34525
IPPROTO_TCP == 6
IPPROTO_UDP == 17
IPPROTO_FRAGMENT == 44
IPPROTO_SCTP == 132

-----------------------------------------------------------------------------
(* The expressions. *)

gen_ncmp(load, cmp, v) ==
    [op |-> "test", stmts |-> load, s |-> Branch("jmp_k", cmp, v, 0, 0)]
Both(b0, b1) == [op |-> "and", l |-> b0, r |-> b1]
Either(b0, b1) == [op |-> "or", l |-> b0, r |-> b1]
Negated(b) == [op |-> "not", l |-> b]

\* gen_load_a for OR_LINK, OR_NET, OR_TRAN_IPV4 and OR_TRAN_IPV6
Link_(k, size) == <<Insn("ld_abs", size, k)>>
Net(k, size) == <<Insn("ld_abs", size, off_macpl + k)>>
Tran4(k, size) ==
    <<Insn("ldx_msh", "b", off_macpl), Insn("ld_ind", size, off_macpl + k)>>
Tran6(k, size) == Net(40 + k, size)

gen_linktype(proto) == gen_ncmp(Link_(off_linktype, "h"), "jeq", proto)

gen_ipfrag == Negated(gen_ncmp(Net(6, "h"), "jset", 8191))

\* Mutant: the ports of a later fragment, which has none, are compared too.
gen_portopAnyFragment(proto) ==
    Both(gen_ncmp(Net(9, "b"), "jeq", proto),
        Either(gen_ncmp(Tran4(0, "h"), "jeq", PORT), gen_ncmp(Tran4(2, "h"), "jeq", PORT)))

gen_portop(proto) ==
    Both(Both(gen_ncmp(Net(9, "b"), "jeq", proto), gen_ipfrag),
        Either(gen_ncmp(Tran4(0, "h"), "jeq", PORT), gen_ncmp(Tran4(2, "h"), "jeq", PORT)))

gen_portop6(proto) ==
    Both(gen_ncmp(Net(6, "b"), "jeq", proto),
        Either(gen_ncmp(Tran6(0, "h"), "jeq", PORT), gen_ncmp(Tran6(2, "h"), "jeq", PORT)))

\* PROTO_UNDEF: the term "port" names no protocol.
gen_port ==
    Both(gen_linktype(ETHERTYPE_IP),
        Either(gen_portop(IPPROTO_SCTP), Either(gen_portop(IPPROTO_TCP), gen_portop(IPPROTO_UDP))))
gen_port6 ==
    Both(gen_linktype(ETHERTYPE_IPV6),
        Either(gen_portop6(IPPROTO_SCTP), Either(gen_portop6(IPPROTO_TCP), gen_portop6(IPPROTO_UDP))))

gen_ncode == Either(gen_port6, gen_port)

gen_proto(v) == Both(gen_linktype(ETHERTYPE_IP), gen_ncmp(Net(9, "b"), "jeq", v))
gen_proto6(v) ==
    Both(gen_linktype(ETHERTYPE_IPV6),
        Either(gen_ncmp(Net(6, "b"), "jeq", v),
           Both(gen_ncmp(Net(6, "b"), "jeq", IPPROTO_FRAGMENT),
               gen_ncmp(Net(40, "b"), "jeq", v))))

gen_proto_abbrev == Either(gen_proto6(IPPROTO_UDP), gen_proto(IPPROTO_UDP))

\* filter_exp
Filter == Both(gen_ncode, gen_proto_abbrev)

\* The calls that build an expression; they leave it in the last block.
RECURSIVE Emit(_, _)
Emit(h, e) ==
    CASE e.op = "test" -> new_block(h, e.stmts, e.s)
      [] e.op = "not"  -> LET h1 == Emit(h, e.l) IN gen_not(h1, Len(h1))
      [] OTHER ->
           LET h1 == Emit(h, e.l)
               h2 == Emit(h1, e.r)
           IN  IF e.op = "and" THEN gen_and(h2, Len(h1), Len(h2))
               ELSE gen_or(h2, Len(h1), Len(h2))

-----------------------------------------------------------------------------
(* The frames. *)

Put(f, k, v) == [f EXCEPT ![k + 1] = v \div 256, ![k + 2] = v % 256]

\* A frame of the given type: the ports lie behind an IPv4 header of the
\* length its first byte gives, or behind the fixed header of IPv6.
Frame(type, hl, frag, proto, src, dst) ==
    LET f == Put([i \in 1 .. 80 |-> IF i = 15 THEN hl ELSE 0], 12, type)
        ports == IF type = ETHERTYPE_IPV6 THEN 54 ELSE 14 + 4 * (hl % 16)
        g == IF type = ETHERTYPE_IPV6 THEN [f EXCEPT ![21] = proto]
             ELSE [Put(f, 20, frag) EXCEPT ![24] = proto]
    IN  Put(Put(g, ports, src), ports + 2, dst)

Frames ==
    {SubSeq(Frame(t, hl, fr, pr, src, dst), 1, n) :
        t \in {ETHERTYPE_IP, ETHERTYPE_IPV6, 2054}, hl \in HLS, fr \in FRAGS,
        pr \in PROTOS, src \in {PORT, 53}, dst \in {PORT, 53}, n \in LENS}

ServerInit ==
    /\ source = "server" /\ phase = "parse" /\ branch = 256
    /\ LayoutInit
    /\ blocks = Emit(<<>>, Filter)
    /\ stack = <<[b |-> Len(blocks), holds |-> {}]>> /\ nots = 0

ProgramInit ==
    /\ source = "program" /\ branch = 256
    /\ phase = "install" /\ blocks = <<>>
    /\ order = <<>> /\ todo = <<>> /\ ftail = 0
    /\ prog \in Programs /\ p = <<>>
    /\ Start
    /\ stack = <<>> /\ nots = 0

Init == ParseInit \/ ServerInit \/ ProgramInit

Received ==
    CASE source = "expression" -> Packet
      [] source = "server"     -> Frames
      [] source = "program"    -> Packets

Compile ==
    /\ Retry \/ Place \/ Install(Received) \/ Run
    /\ UNCHANGED <<source, stack, nots>>

Next == Parse \/ Compile

(* The compiler and the machine do not wait for anybody.                   *)
Spec == Init /\ [][Next]_vars /\ WF_vars(Compile)

-----------------------------------------------------------------------------
(* What the filter means: a field that was not captured equals nothing.    *)

Is(k, size, v) ==
    /\ k + size <= Len(p)
    /\ v = IF size = 1 THEN p[k + 1] ELSE 256 * p[k + 1] + p[k + 2]

PortAt(k) == Is(k, 2, PORT) \/ Is(k + 2, 2, PORT)

Udp4 ==
    /\ Is(12, 2, ETHERTYPE_IP) /\ Is(23, 1, IPPROTO_UDP)
    /\ (256 * p[21] + p[22]) % 8192 = 0
    /\ PortAt(14 + 4 * (p[15] % 16))
Udp6 == Is(12, 2, ETHERTYPE_IPV6) /\ Is(20, 1, IPPROTO_UDP) /\ PortAt(54)

\* No program the compiler made meets the hole in the check of the loads
\* (LoadsInside), not even where an index comes from the packet: whatever
\* was captured of a frame, a load is refused or reads captured bytes only.
CompiledLoadsInside == source # "program" => LoadsInside

\* From the text to the verdict.  The array accepts a packet exactly if the
\* expression holds of it, however many branches had to be made long.  For
\* "port 4567 and udp", on the frame as it was captured: exactly if it is
\* UDP over IPv4, not a later fragment, or UDP directly over IPv6, and has
\* 4567 as one of its ports.  The many protocol and port tests, the order of
\* the alternatives and a load that fails inside one of them do not change
\* the verdict.
VerdictIsExpression ==
    phase = "run" /\ ret # RUNNING =>
        /\ source = "expression" =>
              ret = IF p \in stack[1].holds THEN SNAPLEN ELSE 0
        /\ source = "server" =>
              ret = IF Udp4 \/ Udp6 THEN SNAPLEN ELSE 0
=============================================================================
