---------------------------- MODULE ServerProofs ----------------------------
(***************************************************************************)
(* Proofs about Server, for every number of stocks, window length, packet  *)
(* count and set of datagrams.                                             *)
(***************************************************************************)
EXTENDS ServerFile, SequenceTheorems, FiniteSetTheorems, TLAPS

(* What stocks.db may hold of one datagram.                                *)
Saved == {Written(d) : d \in Datagram}

(* WindowIsNewest, of any windows and histories.                           *)
Newest(map, hist) ==
  \A s \in Stock :
    /\ NewestOf(map[s], hist[s])
    /\ Short(map[s]) => Len(map[s]) = Len(hist[s])

(* The second half of WindowExact, of any windows.                         *)
AllExact(map) == \A s \in Stock : Len(map[s]) = PRICE_LIST_SIZE

Prices == [Stock -> Seq(Price)]

-----------------------------------------------------------------------------
(* Trimming a window that is long enough keeps its PRICE_LIST_SIZE newest  *)
(* prices (main.cpp, lines 89 to 92).                                      *)
LEMMA KeepNewestLemma ==
  ASSUME NEW w \in Seq(Price), ~Short(w)
  PROVE  /\ KeepNewest(w) \in Seq(Price)
         /\ Len(KeepNewest(w)) = PRICE_LIST_SIZE
         /\ \A k \in 1 .. PRICE_LIST_SIZE :
              KeepNewest(w)[k] = w[Len(w) - PRICE_LIST_SIZE + k]
<1>1. PRICE_LIST_SIZE \in Nat \ {0}
  BY ServerAssumption
<1>2. Len(w) \in Nat /\ PRICE_LIST_SIZE <= Len(w)
  BY <1>1, LenProperties DEF Short
<1> DEFINE m == Len(w) - PRICE_LIST_SIZE + 1
<1>3. m \in 1 .. Len(w) + 1 /\ Len(w) \in m - 1 .. Len(w)
  BY <1>1, <1>2
<1>4. /\ SubSeq(w, m, Len(w)) \in Seq(Price)
      /\ Len(SubSeq(w, m, Len(w))) = Len(w) - m + 1
      /\ \A k \in 1 .. Len(w) - m + 1 : SubSeq(w, m, Len(w))[k] = w[m + k - 1]
  BY <1>1, <1>2, <1>3, SubSeqProperties
<1> QED
  BY <1>1, <1>2, <1>4 DEF KeepNewest

(* The scan of allPriceOK (main.cpp, lines 83 to 99) leaves the windows    *)
(* the newest part of the histories; if it answers true, every window is   *)
(* exact; a window it leaves too long has a starved stock below it.        *)
LEMMA ScanLemma ==
  ASSUME NEW map \in Prices, NEW hist \in Prices, NEW ready \in BOOLEAN,
         Newest(map, hist), ready => AllExact(map)
  PROVE  LET new == TrimScan(map, ready)
         IN  /\ new \in Prices
             /\ Newest(new, hist)
             /\ allPriceOK(map, ready) => AllExact(new)
             /\ \A s \in Stock :
                  \/ Len(new[s]) <= PRICE_LIST_SIZE
                  \/ \E t \in 0 .. s - 1 : Len(hist[t]) < PRICE_LIST_SIZE
<1>1. PRICE_LIST_SIZE \in Nat \ {0} /\ SERVER_STOCK \in Nat \ {0}
  BY ServerAssumption
<1> DEFINE new == TrimScan(map, ready)
           kept(s) == ready \/ \E t \in 0 .. s : Short(map[t])
<1>2. ASSUME NEW s \in Stock
      PROVE  /\ kept(s) => new[s] = map[s]
             /\ ~kept(s) => new[s] = KeepNewest(map[s]) /\ ~Short(map[s])
  BY <1>1 DEF TrimScan, Stock
<1>3. ASSUME NEW s \in Stock
      PROVE  /\ map[s] \in Seq(Price) /\ Len(map[s]) \in Nat
             /\ hist[s] \in Seq(Price) /\ Len(hist[s]) \in Nat
  BY LenProperties DEF Prices
<1>4. new \in Prices
  <2>1. \A s \in Stock : new[s] \in Seq(Price)
    BY <1>2, <1>3, KeepNewestLemma
  <2> QED
    BY <2>1 DEF Prices, TrimScan
<1>5. ASSUME NEW s \in Stock
      PROVE  /\ NewestOf(new[s], hist[s])
             /\ Short(new[s]) => Len(new[s]) = Len(hist[s])
  <2>1. CASE kept(s)
    BY <2>1, <1>2 DEF Newest
  <2>2. CASE ~kept(s)
    <3>1. /\ new[s] = KeepNewest(map[s])
          /\ ~Short(map[s])
      BY <2>2, <1>2
    <3>2. /\ Len(new[s]) = PRICE_LIST_SIZE
          /\ \A k \in 1 .. PRICE_LIST_SIZE :
               new[s][k] = map[s][Len(map[s]) - PRICE_LIST_SIZE + k]
      BY <3>1, <1>3, KeepNewestLemma
    <3>3. /\ Len(map[s]) <= Len(hist[s])
          /\ \A k \in 1 .. Len(map[s]) :
               map[s][k] = hist[s][Len(hist[s]) - Len(map[s]) + k]
      BY DEF Newest, NewestOf
    <3>4. PRICE_LIST_SIZE <= Len(map[s])
      BY <3>1, <1>1, <1>3 DEF Short
    <3>5. ASSUME NEW k \in 1 .. PRICE_LIST_SIZE
          PROVE  new[s][k] = hist[s][Len(hist[s]) - PRICE_LIST_SIZE + k]
      <4>1. Len(map[s]) - PRICE_LIST_SIZE + k \in 1 .. Len(map[s])
        BY <3>4, <1>1, <1>3
      <4>2. Len(hist[s]) - Len(map[s]) + (Len(map[s]) - PRICE_LIST_SIZE + k)
              = Len(hist[s]) - PRICE_LIST_SIZE + k
        <5> DEFINE h == Len(hist[s])
                   m == Len(map[s])
        <5>1. h \in Nat /\ m \in Nat
          BY <1>3
        <5> HIDE DEF h, m
        <5>2. h - m + (m - PRICE_LIST_SIZE + k) = h - PRICE_LIST_SIZE + k
          BY <5>1, <1>1
        <5> QED
          BY <5>2 DEF h, m
      <4> QED
        BY <4>1, <4>2, <3>2, <3>3
    <3> QED
      BY <3>2, <3>3, <3>4, <3>5, <1>1, <1>3 DEF NewestOf, Short
  <2> QED
    BY <2>1, <2>2
<1>6. ASSUME allPriceOK(map, ready), NEW s \in Stock
      PROVE  Len(new[s]) = PRICE_LIST_SIZE
  <2>1. CASE ready
    BY <2>1, <1>2 DEF AllExact
  <2>2. CASE ~ready
    <3>1. ~kept(s)
      BY <2>2, <1>6, <1>1 DEF allPriceOK, Stock
    <3> QED
      BY <3>1, <1>2, <1>3, KeepNewestLemma
  <2> QED
    BY <2>1, <2>2
<1>7. ASSUME NEW s \in Stock
      PROVE  \/ Len(new[s]) <= PRICE_LIST_SIZE
             \/ \E t \in 0 .. s - 1 : Len(hist[t]) < PRICE_LIST_SIZE
  <2>1. CASE ready
    <3>1. Len(new[s]) = PRICE_LIST_SIZE
      BY <2>1, <1>6 DEF allPriceOK
    <3> QED
      BY <3>1, <1>1
  <2>2. CASE ~kept(s)
    BY <2>2, <1>1, <1>2, <1>3, KeepNewestLemma
  <2>3. ASSUME NEW t \in 0 .. s, Short(map[t])
        PROVE  \/ Len(new[s]) <= PRICE_LIST_SIZE
               \/ \E u \in 0 .. s - 1 : Len(hist[u]) < PRICE_LIST_SIZE
    <3>1. t \in Stock
      BY <1>1 DEF Stock
    <3>2. Len(map[t]) < PRICE_LIST_SIZE /\ Len(map[t]) = Len(hist[t])
      BY <2>3, <3>1 DEF Short, Newest
    <3>3. CASE t = s
      BY <3>2, <3>3, <2>3, <1>1, <1>2, <1>3
    <3>4. CASE t # s
      <4>1. t \in 0 .. s - 1
        BY <3>4 DEF Stock
      <4> QED
        BY <4>1, <3>2
    <3> QED
      BY <3>3, <3>4
  <2> QED
    BY <2>1, <2>2, <2>3
<1> QED
  BY <1>4, <1>5, <1>6, <1>7 DEF Newest, AllExact

(* Storing one price (main.cpp, lines 199 to 203) keeps the windows the    *)
(* newest part of the histories and, if they were all full, exact; a       *)
(* window two or more too long has a starved stock below it.               *)
LEMMA PushLemma ==
  ASSUME NEW map \in Prices, NEW hist \in Prices, NEW ready \in BOOLEAN,
         NEW id \in Stock, NEW price \in Price,
         Newest(map, hist), ready => AllExact(map)
  PROVE  LET new  == PushPrice(map, ready, id, price)
             told == [hist EXCEPT ![id] = Append(@, price)]
         IN  /\ new \in Prices
             /\ told \in Prices
             /\ Newest(new, told)
             /\ allPriceOK(map, ready) => AllExact(new)
             /\ \A s \in Stock :
                  \/ Len(new[s]) <= PRICE_LIST_SIZE + 1
                  \/ \E t \in 0 .. s - 1 : Len(told[t]) <= PRICE_LIST_SIZE
<1>1. PRICE_LIST_SIZE \in Nat \ {0} /\ SERVER_STOCK \in Nat \ {0}
  BY ServerAssumption
<1> DEFINE scanned == TrimScan(map, ready)
           full == allPriceOK(map, ready)
           room == IF full THEN Tail(scanned[id]) ELSE scanned[id]
           new == PushPrice(map, ready, id, price)
           told == [hist EXCEPT ![id] = Append(@, price)]
<1>2. /\ scanned \in Prices
      /\ Newest(scanned, hist)
      /\ full => AllExact(scanned)
      /\ \A s \in Stock :
           \/ Len(scanned[s]) <= PRICE_LIST_SIZE
           \/ \E t \in 0 .. s - 1 : Len(hist[t]) < PRICE_LIST_SIZE
  BY ScanLemma
<1>3. new = [scanned EXCEPT ![id] = Append(room, price)]
  BY DEF PushPrice
<1> HIDE DEF scanned, full
<1>4. ASSUME NEW s \in Stock
      PROVE  /\ scanned[s] \in Seq(Price) /\ Len(scanned[s]) \in Nat
             /\ hist[s] \in Seq(Price) /\ Len(hist[s]) \in Nat
  BY <1>2, LenProperties DEF Prices
(* The window the price goes into, without the price it may push out.      *)
<1>5. /\ room \in Seq(Price)
      /\ Len(room) = IF full THEN PRICE_LIST_SIZE - 1 ELSE Len(scanned[id])
      /\ Len(room) \in Nat
      /\ Len(room) <= Len(hist[id])
      /\ \A k \in 1 .. Len(room) :
           room[k] = hist[id][Len(hist[id]) - Len(room) + k]
  <2>1. /\ scanned[id] \in Seq(Price) /\ Len(scanned[id]) \in Nat
        /\ Len(hist[id]) \in Nat
    BY <1>4
  <2>2. /\ Len(scanned[id]) <= Len(hist[id])
        /\ \A k \in 1 .. Len(scanned[id]) :
             scanned[id][k] = hist[id][Len(hist[id]) - Len(scanned[id]) + k]
    BY <1>2 DEF Newest, NewestOf
  <2>3. CASE ~full
    BY <2>1, <2>2, <2>3
  <2>4. CASE full
    <3>1. Len(scanned[id]) = PRICE_LIST_SIZE
      BY <2>4, <1>2 DEF AllExact
    <3>2. scanned[id] # << >>
      BY <3>1, <2>1, <1>1
    <3>3. /\ Tail(scanned[id]) \in Seq(Price)
          /\ Len(Tail(scanned[id])) = PRICE_LIST_SIZE - 1
          /\ \A k \in 1 .. PRICE_LIST_SIZE - 1 :
               Tail(scanned[id])[k] = scanned[id][k + 1]
      BY <3>1, <3>2, <2>1, <1>1, HeadTailProperties
    <3>4. ASSUME NEW k \in 1 .. PRICE_LIST_SIZE - 1
          PROVE  Tail(scanned[id])[k]
                   = hist[id][Len(hist[id]) - (PRICE_LIST_SIZE - 1) + k]
      <4>1. k + 1 \in 1 .. Len(scanned[id])
        BY <3>1, <1>1
      <4>2. Len(hist[id]) - Len(scanned[id]) + (k + 1)
              = Len(hist[id]) - (PRICE_LIST_SIZE - 1) + k
        <5> DEFINE h == Len(hist[id])
        <5>1. h \in Nat
          BY <2>1
        <5> HIDE DEF h
        <5>2. h - PRICE_LIST_SIZE + (k + 1) = h - (PRICE_LIST_SIZE - 1) + k
          BY <5>1, <1>1
        <5> QED
          BY <5>2, <3>1 DEF h
      <4> QED
        BY <4>1, <4>2, <3>3, <2>2
    <3>5. room = Tail(scanned[id])
      BY <2>4
    <3>6. PRICE_LIST_SIZE - 1 \in Nat /\ PRICE_LIST_SIZE - 1 <= Len(hist[id])
      BY <3>1, <2>1, <2>2, <1>1
    <3> QED
      BY <3>3, <3>4, <3>5, <3>6, <2>4
  <2> QED
    BY <2>3, <2>4
<1> HIDE DEF room
<1>6. /\ Append(room, price) \in Seq(Price)
      /\ Len(Append(room, price)) = Len(room) + 1
      /\ \A k \in 1 .. Len(room) : Append(room, price)[k] = room[k]
      /\ Append(room, price)[Len(room) + 1] = price
  BY <1>5, AppendProperties
<1>7. /\ Append(hist[id], price) \in Seq(Price)
      /\ Len(Append(hist[id], price)) = Len(hist[id]) + 1
      /\ \A k \in 1 .. Len(hist[id]) : Append(hist[id], price)[k] = hist[id][k]
      /\ Append(hist[id], price)[Len(hist[id]) + 1] = price
  BY <1>4, AppendProperties
<1>8. /\ new \in Prices /\ told \in Prices
      /\ new[id] = Append(room, price) /\ told[id] = Append(hist[id], price)
      /\ \A s \in Stock \ {id} : new[s] = scanned[s] /\ told[s] = hist[s]
  BY <1>2, <1>3, <1>6, <1>7 DEF Prices
<1> HIDE DEF new, told
<1>9. ASSUME NEW s \in Stock
      PROVE  /\ NewestOf(new[s], told[s])
             /\ Short(new[s]) => Len(new[s]) = Len(told[s])
  <2>1. CASE s # id
    BY <2>1, <1>2, <1>8 DEF Newest
  <2>2. CASE s = id
    <3> DEFINE n == Len(room)
               h == Len(hist[id])
    <3>1. n \in Nat /\ h \in Nat /\ n <= h
      BY <1>4, <1>5
    <3>2. Len(new[id]) = n + 1 /\ Len(told[id]) = h + 1
      BY <1>6, <1>7, <1>8
    <3>3. ASSUME NEW k \in 1 .. n + 1
          PROVE  new[id][k] = told[id][(h + 1) - (n + 1) + k]
      <4>1. CASE k = n + 1
        <5>1. (h + 1) - (n + 1) + k = h + 1
          <6> HIDE DEF h, n
          <6> QED
            BY <4>1, <3>1
        <5> QED
          BY <5>1, <4>1, <1>6, <1>7, <1>8
      <4>2. CASE k # n + 1
        <5>1. k \in 1 .. n /\ h - n + k \in 1 .. h
          BY <4>2, <3>1
        <5>2. (h + 1) - (n + 1) + k = h - n + k
          BY <3>1
        <5>3. new[id][k] = hist[id][h - n + k]
          BY <5>1, <1>5, <1>6, <1>8
        <5> QED
          BY <5>1, <5>2, <5>3, <1>7, <1>8
      <4> QED
        BY <4>1, <4>2
    <3>4. Short(new[id]) => n = h
      <4>1. CASE full
        BY <4>1, <3>2, <1>1, <1>5 DEF Short
      <4>2. CASE ~full
        <5>1. Short(new[id]) => Short(scanned[id])
          BY <4>2, <3>1, <3>2, <1>1, <1>5 DEF Short
        <5> QED
          BY <5>1, <4>2, <1>2, <1>5 DEF Newest
      <4> QED
        BY <4>1, <4>2
    <3> QED
      BY <2>2, <3>1, <3>2, <3>3, <3>4 DEF NewestOf
  <2> QED
    BY <2>1, <2>2
<1>10. ASSUME full, NEW s \in Stock
       PROVE  Len(new[s]) = PRICE_LIST_SIZE
  <2>1. CASE s # id
    BY <2>1, <1>10, <1>2, <1>8 DEF AllExact
  <2>2. CASE s = id
    BY <2>2, <1>10, <1>1, <1>5, <1>6, <1>8
  <2> QED
    BY <2>1, <2>2
<1>11. ASSUME NEW s \in Stock
       PROVE  \/ Len(new[s]) <= PRICE_LIST_SIZE + 1
              \/ \E t \in 0 .. s - 1 : Len(told[t]) <= PRICE_LIST_SIZE
  <2>1. Len(new[s]) <= Len(scanned[s]) + 1
    <3>1. CASE s # id
      BY <3>1, <1>4, <1>8
    <3>2. CASE s = id
      <4>1. full => Len(scanned[id]) = PRICE_LIST_SIZE
        BY <1>2 DEF AllExact
      <4> QED
        BY <4>1, <3>2, <1>1, <1>4, <1>5, <1>6, <1>8
    <3> QED
      BY <3>1, <3>2
  <2>2. CASE Len(scanned[s]) <= PRICE_LIST_SIZE
    <3>1. Len(new[s]) \in Nat /\ Len(scanned[s]) \in Nat
      BY <1>4, <1>8, LenProperties DEF Prices
    <3> QED
      BY <3>1, <2>1, <2>2, <1>1
  <2>3. ASSUME NEW t \in 0 .. s - 1, Len(hist[t]) < PRICE_LIST_SIZE
        PROVE  Len(told[t]) <= PRICE_LIST_SIZE
    <3>1. t \in Stock
      BY <1>1 DEF Stock
    <3>2. Len(hist[t]) \in Nat
      BY <3>1, <1>4
    <3>3. Len(told[t]) = Len(hist[t]) \/ Len(told[t]) = Len(hist[t]) + 1
      BY <3>1, <1>7, <1>8
    <3> QED
      BY <2>3, <3>2, <3>3, <1>1
  <2> QED
    BY <2>2, <2>3, <1>2
<1> QED
  BY <1>8, <1>9, <1>10, <1>11 DEF Newest, AllExact, new, told, full

-----------------------------------------------------------------------------
(* The inductive invariant.  The first half of WindowExact needs the       *)
(* types; its second half needs WindowIsNewest to know that a short window *)
(* has lost nothing, which is also what bounds the growth of the others.   *)
IInv == TypeOK /\ WindowExact /\ WindowIsNewest /\ GrowthNeedsStarvation

(* A payload that is written makes the file longer by one.                 *)
LEMMA SavedAppend ==
  ASSUME TypeOK, NEW d \in Datagram
  PROVE  Append(g_pFile, Written(d)) \in Seq(Saved)
<1>1. g_pFile \in Seq(Saved) /\ Written(d) \in Saved
  BY DEF TypeOK, Saved
<1> QED
  BY <1>1, AppendProperties

(* With all windows empty and nothing stored, the inductive invariant      *)
(* holds (main.cpp, lines 75 to 81 and 378 to 386).                        *)
LEMMA InitIInv == Init => IInv
<1> SUFFICES ASSUME Init PROVE IInv
  OBVIOUS
<1>1. /\ GROUP_STOCK \in Nat \ {0} /\ SERVER_STOCK \in Nat \ {0}
      /\ PRICE_LIST_SIZE \in Nat \ {0} /\ SERVER_STOCK_COUNT \in Nat \ {0}
  BY ServerAssumption
<1>2. << >> \in Seq(Price) /\ << >> \in Seq(Saved)
  OBVIOUS
<1>3. TypeOK
  <2>1. [s \in Stock |-> << >>] \in [Stock -> Seq(Price)]
    BY <1>2
  <2>2. /\ g_priceMap \in [Stock -> Seq(Price)]
        /\ quoted \in [Stock -> Seq(Price)]
        /\ g_pFile \in Seq(Saved)
    BY <2>1, <1>2 DEF Init
  <2>3. g_ready \in BOOLEAN
    BY Zenon DEF Init
  <2> QED
    BY <2>2, <2>3, <1>1 DEF Init, TypeOK, ServerState, Saved
<1>4. WindowExact
  BY DEF Init, WindowExact
<1>5. WindowIsNewest
  BY DEF Init, WindowIsNewest, NewestOf
<1>6. GrowthNeedsStarvation
  BY <1>1 DEF Init, GrowthNeedsStarvation
<1> QED
  BY <1>3, <1>4, <1>5, <1>6 DEF IInv

(* A record of a followed stock: its fields, and what storing its price    *)
(* leaves before the counter is looked at.                                 *)
LEMMA StoreLemma ==
  ASSUME IInv, StorePrice
  PROVE  /\ Current.id \in Stock
         /\ Current.close \in Price
         /\ WasReady \in BOOLEAN
         /\ Pushed \in Prices
         /\ quoted' \in Prices
         /\ Newest(Pushed, quoted')
         /\ WasReady => AllExact(Pushed)
         /\ \A s \in Stock :
              \/ Len(Pushed[s]) <= PRICE_LIST_SIZE + 1
              \/ \E t \in 0 .. s - 1 : Len(quoted'[t]) <= PRICE_LIST_SIZE
<1>1. /\ g_priceMap \in Prices /\ quoted \in Prices /\ g_ready \in BOOLEAN
      /\ Newest(g_priceMap, quoted)
      /\ g_ready => AllExact(g_priceMap)
  BY DEF IInv, TypeOK, WindowExact, WindowIsNewest, Newest, AllExact, Prices
<1>2. Current.id \in Stock /\ Current.close \in Price
  <2>1. packet \in Datagram /\ slot \in 0 .. GROUP_STOCK - 1
    BY ServerAssumption DEF IInv, TypeOK, StorePrice, Decoding
  <2>2. packet.rec \in [0 .. GROUP_STOCK - 1 -> [id : Int, close : Price]]
    BY <2>1, ServerAssumption
  <2> QED
    BY <2>1, <2>2 DEF StorePrice, Current
<1>3. quoted' = [quoted EXCEPT ![Current.id] = Append(@, Current.close)]
  BY DEF StorePrice
<1>4. WasReady \in BOOLEAN
  BY DEF WasReady, allPriceOK
<1> HIDE DEF Current
<1> QED
  BY <1>1, <1>2, <1>3, <1>4, PushLemma DEF Pushed, WasReady

(* Every step of the server keeps the inductive invariant: only the three  *)
(* that store a price touch windows or histories.                          *)
LEMMA NextIInv == IInv /\ [Next]_vars => IInv'
<1> SUFFICES ASSUME IInv, [Next]_vars PROVE IInv'
  OBVIOUS
<1>1. /\ GROUP_STOCK \in Nat \ {0} /\ SERVER_STOCK \in Nat \ {0}
      /\ PRICE_LIST_SIZE \in Nat \ {0} /\ SERVER_STOCK_COUNT \in Nat \ {0}
  BY ServerAssumption
<1>2. TypeOK /\ WindowExact /\ WindowIsNewest /\ GrowthNeedsStarvation
  BY DEF IInv
(* The steps that leave the windows alone.                                 *)
<1>3. ASSUME UNCHANGED <<g_priceMap, g_ready, quoted>>, TypeOK',
             server' \in {"coefficient", "aborted"}
               => server \in {"coefficient", "aborted"}
      PROVE  IInv'
  <2>1. WindowExact'
    BY <1>2, <1>3 DEF WindowExact
  <2>2. WindowIsNewest' /\ GrowthNeedsStarvation'
    BY <1>2, <1>3 DEF WindowIsNewest, GrowthNeedsStarvation
  <2> QED
    BY <1>3, <2>1, <2>2 DEF IInv
<1>4. CASE CallbackReject
  <2>1. TypeOK'
    BY <1>1, <1>2, <1>4 DEF CallbackReject, Deliver, TypeOK, pricing
  <2> QED
    BY <1>3, <1>4, <2>1 DEF CallbackReject, pricing
<1>5. ASSUME NEW d \in Datagram, CallbackDone(d) PROVE IInv'
  <2>1. Append(g_pFile, Written(d)) \in Seq({Written(x) : x \in Datagram})
    BY <1>2, SavedAppend DEF Saved
  <2>2. TypeOK'
    BY <1>1, <1>2, <1>5, <2>1 DEF CallbackDone, Deliver, TypeOK, pricing
  <2> QED
    BY <1>3, <1>5, <2>2 DEF CallbackDone, pricing
<1>6. ASSUME NEW d \in Datagram, CallbackEnter(d) PROVE IInv'
  <2>1. /\ Append(g_pFile, Written(d)) \in Seq({Written(x) : x \in Datagram})
        /\ d.loop \in Int
    BY <1>2, SavedAppend, ServerAssumption DEF Saved
  <2>2. TypeOK'
    BY <1>1, <1>2, <1>6, <2>1
    DEF CallbackEnter, Deliver, TypeOK, pricing, ServerState
  <2> QED
    BY <1>3, <1>6, <2>2 DEF CallbackEnter, pricing
<1>7. CASE SkipRecord
  <2>1. TypeOK'
    BY <1>1, <1>2, <1>7 DEF SkipRecord, Decoding, TypeOK, pricing
  <2> QED
    BY <1>3, <1>7, <2>1 DEF SkipRecord, pricing
(* A stored price: from the windows the step leaves to the invariant.      *)
<1>8. ASSUME g_priceMap' \in Prices, quoted' \in Prices, TypeOK',
             Newest(g_priceMap', quoted'),
             g_ready' => AllExact(g_priceMap'),
             server' \in {"coefficient", "aborted"} => g_ready',
             \A s \in Stock :
               \/ Len(g_priceMap'[s]) <= PRICE_LIST_SIZE + 1
               \/ \E t \in 0 .. s - 1 : Len(quoted'[t]) <= PRICE_LIST_SIZE
      PROVE  IInv'
  <2>1. WindowExact'
    BY <1>8 DEF WindowExact, AllExact
  <2>2. WindowIsNewest'
    BY <1>8 DEF WindowIsNewest, Newest
  <2>3. GrowthNeedsStarvation'
    BY <1>8 DEF GrowthNeedsStarvation
  <2> QED
    BY <1>8, <2>1, <2>2, <2>3 DEF IInv
(* The windows after the second scan of a completed round.                 *)
<1>9. ASSUME StorePrice
      PROVE  LET new == TrimScan(Pushed, WasReady)
             IN  /\ new \in Prices
                 /\ Newest(new, quoted')
                 /\ allPriceOK(Pushed, WasReady) => AllExact(new)
                 /\ \A s \in Stock :
                      \/ Len(new[s]) <= PRICE_LIST_SIZE + 1
                      \/ \E t \in 0 .. s - 1 :
                           Len(quoted'[t]) <= PRICE_LIST_SIZE
  <2> DEFINE new == TrimScan(Pushed, WasReady)
  <2>1. /\ WasReady \in BOOLEAN /\ Pushed \in Prices /\ quoted' \in Prices
        /\ Newest(Pushed, quoted') /\ (WasReady => AllExact(Pushed))
    BY <1>9, StoreLemma
  <2> HIDE DEF WasReady, Pushed
  <2>2. /\ new \in Prices
        /\ Newest(new, quoted')
        /\ allPriceOK(Pushed, WasReady) => AllExact(new)
        /\ \A s \in Stock :
             \/ Len(new[s]) <= PRICE_LIST_SIZE
             \/ \E t \in 0 .. s - 1 : Len(quoted'[t]) < PRICE_LIST_SIZE
    BY <2>1, ScanLemma
  <2>3. ASSUME NEW s \in Stock
        PROVE  \/ Len(new[s]) <= PRICE_LIST_SIZE + 1
               \/ \E t \in 0 .. s - 1 : Len(quoted'[t]) <= PRICE_LIST_SIZE
    <3>1. CASE Len(new[s]) <= PRICE_LIST_SIZE
      <4>1. Len(new[s]) \in Nat
        BY <2>2, LenProperties DEF Prices
      <4> HIDE DEF new
      <4> QED
        BY <3>1, <4>1, <1>1
    <3>2. ASSUME NEW t \in 0 .. s - 1, Len(quoted'[t]) < PRICE_LIST_SIZE
          PROVE  Len(quoted'[t]) <= PRICE_LIST_SIZE
      <4>1. t \in Stock
        BY <1>1 DEF Stock
      <4>2. Len(quoted'[t]) \in Nat
        BY <4>1, <2>1, LenProperties DEF Prices
      <4> QED
        BY <3>2, <4>2, <1>1
    <3> QED
      BY <3>1, <3>2, <2>2
  <2> QED
    BY <2>2, <2>3
<1>10. CASE StoreRecord
  <2>1. StorePrice /\ g_priceMap' = Pushed /\ g_ready' = WasReady
    BY <1>10 DEF StoreRecord
  <2>2. TypeOK'
    BY <2>1, <1>1, <1>2, <1>10, StoreLemma
    DEF StoreRecord, StorePrice, Decoding, TypeOK, Prices
  <2>3. server' \notin {"coefficient", "aborted"}
    BY <1>10 DEF StoreRecord, StorePrice, Decoding
  <2> QED
    BY <2>1, <2>2, <2>3, <1>8, StoreLemma
<1>11. CASE GetAll
  <2>1. StorePrice /\ g_priceMap' = TrimScan(Pushed, WasReady) /\ ~g_ready'
    BY <1>11 DEF GetAll
  <2>2. g_priceMap' \in Prices /\ quoted' \in Prices
    BY <2>1, <1>9, StoreLemma
  <2>3. TypeOK'
    <3>1. g_ready' \in BOOLEAN
      BY <1>11, Zenon DEF GetAll
    <3> QED
      BY <3>1, <2>2, <1>1, <1>2, <1>11
      DEF GetAll, StorePrice, Decoding, TypeOK, Prices
  <2>4. server' \notin {"coefficient", "aborted"}
    BY <1>11 DEF GetAll, StorePrice, Decoding
  <2> QED
    BY <2>1, <2>2, <2>3, <2>4, <1>8, <1>9
<1>12. CASE GetAllAndCompute
  <2>1. /\ StorePrice /\ g_priceMap' = TrimScan(Pushed, WasReady)
        /\ allPriceOK(Pushed, WasReady) /\ g_ready' = TRUE
    BY <1>12 DEF GetAllAndCompute
  <2>2. g_priceMap' \in Prices /\ quoted' \in Prices
    BY <2>1, <1>9, StoreLemma
  <2>3. TypeOK'
    BY <2>2, <1>1, <1>2, <1>12
    DEF GetAllAndCompute, StorePrice, Decoding, TypeOK, Prices, ServerState
  <2> QED
    BY <2>1, <2>2, <2>3, <1>8, <1>9
<1>13. CASE CallbackReturn
  <2>1. TypeOK'
    BY <1>1, <1>2, <1>13 DEF CallbackReturn, TypeOK, pricing, ServerState
  <2> QED
    BY <1>3, <1>13, <2>1 DEF CallbackReturn, pricing
<1>14. CASE Abort
  <2>1. TypeOK'
    BY <1>1, <1>2, <1>14 DEF Abort, TypeOK, pricing, ServerState
  <2> QED
    BY <1>3, <1>14, <2>1 DEF Abort, pricing
<1>15. CASE Finish
  <2>1. TypeOK'
    BY <1>1, <1>2, <1>15 DEF Finish, TypeOK, pricing, ServerState
  <2> QED
    BY <1>3, <1>15, <2>1 DEF Finish, pricing
<1>16. CASE UNCHANGED vars
  <2>1. TypeOK'
    BY <1>2, <1>16 DEF vars, TypeOK
  <2> QED
    BY <1>3, <1>16, <2>1 DEF vars
<1> QED
  BY <1>4, <1>5, <1>6, <1>7, <1>10, <1>11, <1>12, <1>13, <1>14, <1>15, <1>16
  DEF Next

(* The inductive invariant holds in every state the server can be in.      *)
THEOREM IInvHolds == Spec => []IInv
  BY InitIInv, NextIInv, PTL DEF Spec

(* The server's globals keep their types, the round counter stays below    *)
(* SERVER_STOCK while packets are captured, and no computed loop is ever   *)
(* recorded (main.cpp, lines 75 to 81).                                    *)
THEOREM TypeCorrect == Spec => []TypeOK
<1>1. IInv => TypeOK
  BY DEF IInv
<1> QED
  BY <1>1, IInvHolds, PTL

(* coefficient never reads a window that is not exactly PRICE_LIST_SIZE    *)
(* prices long (coefficient.cu, lines 188 to 196).                         *)
THEOREM WindowsExact == Spec => []WindowExact
<1>1. IInv => WindowExact
  BY DEF IInv
<1> QED
  BY <1>1, IInvHolds, PTL

(* A window is the newest part of what was stored for its stock            *)
(* (main.cpp, lines 83 to 99 and 199 to 203).                              *)
THEOREM WindowsAreNewest == Spec => []WindowIsNewest
<1>1. IInv => WindowIsNewest
  BY DEF IInv
<1> QED
  BY <1>1, IInvHolds, PTL

(* A window outgrows PRICE_LIST_SIZE + 1 only behind a starved stock       *)
(* (main.cpp, lines 86 to 96).                                             *)
THEOREM GrowthIsStarvation == Spec => []GrowthNeedsStarvation
<1>1. IInv => GrowthNeedsStarvation
  BY DEF IInv
<1> QED
  BY <1>1, IInvHolds, PTL

(* Once every window was full, windows only slide (main.cpp, lines 84 and  *)
(* 199 to 203).                                                            *)
THEOREM WindowsSlide == Spec => SlideByOne
<1>1. ASSUME IInv, [Next]_vars PROVE [g_ready => g_ready' /\ Slide]_vars
  <2> SUFFICES ASSUME Next, g_ready = TRUE PROVE g_ready' /\ Slide
    <3>1. g_ready \in BOOLEAN
      BY <1>1 DEF IInv, TypeOK
    <3> QED
      BY <3>1, <1>1
  <2>1. g_priceMap \in Prices
    BY <1>1 DEF IInv, TypeOK, Prices
  <2>2. \A map \in Prices : TrimScan(map, TRUE) = map
    BY DEF TrimScan, Prices
  <2>3. ASSUME UNCHANGED <<g_priceMap, g_ready>> PROVE g_ready' /\ Slide
    BY <2>3 DEF Slide
  <2>4. ASSUME StorePrice
        PROVE  /\ Current.id \in Stock /\ Current.close \in Price
               /\ Pushed \in Prices
               /\ WasReady = TRUE
               /\ allPriceOK(Pushed, WasReady) = TRUE
               /\ Pushed = [g_priceMap EXCEPT
                              ![Current.id] = Append(Tail(@), Current.close)]
    <3>1. Current.id \in Stock /\ Current.close \in Price /\ Pushed \in Prices
      BY <1>1, <2>4, StoreLemma
    <3>2. allPriceOK(g_priceMap, TRUE) /\ allPriceOK(Pushed, TRUE)
      BY DEF allPriceOK
    <3>3. WasReady = TRUE
      BY <3>2 DEF WasReady, allPriceOK
    <3>4. Pushed = [g_priceMap EXCEPT
                     ![Current.id] = Append(Tail(@), Current.close)]
      <4> HIDE DEF Current
      <4>1. TrimScan(g_priceMap, g_ready) = g_priceMap
        BY <2>1, <2>2
      <4> QED
        BY <4>1, <3>1, <3>2, <2>1 DEF Pushed, PushPrice
    <3> QED
      BY <3>1, <3>2, <3>3, <3>4 DEF allPriceOK
  <2>5. CASE StoreRecord
    BY <2>4, <2>5 DEF StoreRecord, Slide
  <2>6. CASE GetAll
    BY <2>4, <2>6 DEF GetAll
  <2>7. CASE GetAllAndCompute
    BY <2>2, <2>4, <2>7 DEF GetAllAndCompute, Slide
  <2>8. CASE \/ CallbackReject
             \/ \E d \in Datagram : CallbackDone(d) \/ CallbackEnter(d)
             \/ SkipRecord \/ CallbackReturn \/ Abort \/ Finish
    BY <2>3, <2>8 DEF CallbackReject, CallbackDone, CallbackEnter, SkipRecord,
                      CallbackReturn, Abort, Finish, pricing
  <2> QED
    BY <2>5, <2>6, <2>7, <2>8 DEF Next
<1> QED
  BY <1>1, IInvHolds, PTL DEF Spec, SlideByOne

-----------------------------------------------------------------------------
(* Quotient and remainder are determined by their product and sum.         *)
LEMMA DivModUnique ==
  ASSUME NEW b \in Nat \ {0}, NEW q \in Nat, NEW r \in 0 .. b - 1
  PROVE  (b * q + r) \div b = q /\ (b * q + r) % b = r
<1> DEFINE a == b * q + r
           d == a \div b
           e == a % b
<1>1. a \in Nat
  OBVIOUS
<1>2. a = b * d + e /\ d \in Int /\ e \in 0 .. b - 1
  BY <1>1
<1>3. b * q + r = b * d + e
  BY <1>2
<1> HIDE DEF a, d, e
<1>4. ASSUME d < q  PROVE FALSE
  <2>1. PICK f \in Nat : q = d + 1 + f
    <3>1. q - d - 1 \in Nat /\ q = d + 1 + (q - d - 1)
      BY <1>2, <1>4
    <3> QED
      BY <3>1
  <2>2. b * q = b * d + b + b * f /\ b * f >= 0
    BY <2>1, <1>2
  <2> QED
    BY <2>2, <1>2, <1>3
<1>5. ASSUME q < d  PROVE FALSE
  <2>1. PICK f \in Nat : d = q + 1 + f
    <3>1. d - q - 1 \in Nat /\ d = q + 1 + (d - q - 1)
      BY <1>2, <1>5
    <3> QED
      BY <3>1
  <2>2. b * d = b * q + b + b * f /\ b * f >= 0
    BY <2>1, <1>2
  <2> QED
    BY <2>2, <1>2, <1>3
<1>6. d = q
  BY <1>2, <1>4, <1>5
<1>7. e = r
  BY <1>2, <1>3, <1>6
<1> QED
  BY <1>6, <1>7 DEF a, d, e

(* Counting one more wraps at b.                                           *)
LEMMA CountWraps ==
  ASSUME NEW b \in Nat \ {0}, NEW n \in Nat
  PROVE  /\ n % b \in 0 .. b - 1
         /\ (n + 1) % b = IF (n % b) + 1 = b THEN 0 ELSE (n % b) + 1
<1> DEFINE q == n \div b
           r == n % b
<1>1. n = b * q + r /\ q \in Nat /\ r \in 0 .. b - 1
  OBVIOUS
<1> HIDE DEF q, r
<1>2. CASE r + 1 = b
  <2>1. n + 1 = b * (q + 1) + 0 /\ q + 1 \in Nat /\ 0 \in 0 .. b - 1
    BY <1>1, <1>2
  <2>2. (b * (q + 1) + 0) % b = 0
    BY <2>1, DivModUnique
  <2> QED
    BY <2>1, <2>2, <1>1, <1>2 DEF r
<1>3. CASE r + 1 # b
  <2>1. n + 1 = b * q + (r + 1) /\ r + 1 \in 0 .. b - 1
    BY <1>1, <1>3
  <2>2. (b * q + (r + 1)) % b = r + 1
    BY <2>1, <1>1, DivModUnique
  <2> QED
    BY <2>1, <2>2, <1>1, <1>3 DEF r
<1> QED
  BY <1>2, <1>3

-----------------------------------------------------------------------------
(* StoredPrices, of any history.                                           *)
StoredIn(hist) == UNION {{s} \X (1 .. Len(hist[s])) : s \in Stock}

(* Storing one price adds one to the number of prices stored.              *)
LEMMA StoredGrows ==
  ASSUME NEW hist \in Prices, NEW s \in Stock, NEW price \in Price,
         IsFiniteSet(StoredIn(hist))
  PROVE  LET new == [hist EXCEPT ![s] = Append(@, price)]
         IN  /\ IsFiniteSet(StoredIn(new))
             /\ Cardinality(StoredIn(new)) = Cardinality(StoredIn(hist)) + 1
<1> DEFINE new == [hist EXCEPT ![s] = Append(@, price)]
           x == <<s, Len(hist[s]) + 1>>
<1>1. hist[s] \in Seq(Price) /\ Len(hist[s]) \in Nat
  BY DEF Prices
<1>2. Len(new[s]) = Len(hist[s]) + 1
  BY <1>1, AppendProperties DEF Prices
<1>3. \A t \in Stock : t # s => new[t] = hist[t]
  BY DEF Prices
<1> HIDE DEF new
<1>4. 1 .. Len(new[s]) = (1 .. Len(hist[s])) \cup {Len(hist[s]) + 1}
  BY <1>1, <1>2
<1>5. StoredIn(new) = StoredIn(hist) \cup {x}
  BY <1>3, <1>4 DEF StoredIn
<1>6. x \notin StoredIn(hist)
  BY <1>1 DEF StoredIn
<1>7. /\ IsFiniteSet(StoredIn(hist) \cup {x})
      /\ Cardinality(StoredIn(hist) \cup {x}) = Cardinality(StoredIn(hist)) + 1
  BY <1>6, FS_AddElement
<1> QED
  BY <1>5, <1>7 DEF new

(* The round counter with what makes it inductive: there are finitely many *)
(* stored prices.                                                          *)
CountInv == IsFiniteSet(StoredPrices) /\ RoundIsCount

(* No price is stored before the first packet.                             *)
LEMMA InitCount == Init => CountInv
<1> SUFFICES ASSUME Init PROVE CountInv
  OBVIOUS
<1>1. SERVER_STOCK \in Nat \ {0}
  BY ServerAssumption
<1>2. \A s \in Stock : 1 .. Len(quoted[s]) = {}
  BY DEF Init
<1>3. StoredPrices = {}
  BY <1>2 DEF StoredPrices
<1>4. IsFiniteSet({}) /\ Cardinality({}) = 0
  BY FS_EmptySet
<1>5. SERVER_STOCK * 0 + 0 = 0 /\ 0 \in Nat /\ 0 \in 0 .. SERVER_STOCK - 1
  BY <1>1
<1>6. (SERVER_STOCK * 0 + 0) % SERVER_STOCK = 0
  BY <1>1, <1>5, DivModUnique
<1>7. 0 % SERVER_STOCK = 0
  BY <1>5, <1>6
<1> QED
  BY <1>3, <1>4, <1>7 DEF Init, CountInv, RoundIsCount

(* Every step of the server keeps the round counter the number of prices   *)
(* stored modulo SERVER_STOCK (main.cpp, lines 204 to 213).                *)
LEMMA NextCount == IInv /\ CountInv /\ [Next]_vars => CountInv'
<1> SUFFICES ASSUME IInv, CountInv, [Next]_vars PROVE CountInv'
  OBVIOUS
<1>1. SERVER_STOCK \in Nat \ {0}
  BY ServerAssumption
<1>2. TypeOK /\ quoted \in Prices /\ g_current_stocks \in Nat
  BY <1>1 DEF IInv, TypeOK, Prices
<1> DEFINE n == Cardinality(StoredIn(quoted))
           m == Cardinality(StoredIn(quoted'))
<1>3. /\ StoredPrices = StoredIn(quoted) /\ StoredPrices' = StoredIn(quoted')
      /\ IsFiniteSet(StoredIn(quoted)) /\ n \in Nat
  BY FS_CardinalityType DEF StoredPrices, StoredIn, CountInv
<1>4. IF server \in {"coefficient", "aborted"}
      THEN g_current_stocks = SERVER_STOCK /\ n % SERVER_STOCK = 0
      ELSE g_current_stocks = n % SERVER_STOCK
  BY <1>3 DEF CountInv, RoundIsCount
<1>5. ASSUME IsFiniteSet(StoredIn(quoted')),
             IF server' \in {"coefficient", "aborted"}
             THEN g_current_stocks' = SERVER_STOCK /\ m % SERVER_STOCK = 0
             ELSE g_current_stocks' = m % SERVER_STOCK
      PROVE  CountInv'
  BY <1>3, <1>5 DEF CountInv, RoundIsCount
<1>6. ASSUME StorePrice
      PROVE  /\ server = "callback"
             /\ IsFiniteSet(StoredIn(quoted'))
             /\ m % SERVER_STOCK = IF g_current_stocks + 1 = SERVER_STOCK
                                   THEN 0 ELSE g_current_stocks + 1
  <2>1. /\ server = "callback" /\ Current.id \in Stock /\ Current.close \in Price
        /\ quoted' = [quoted EXCEPT ![Current.id] = Append(@, Current.close)]
    BY <1>6, StoreLemma DEF StorePrice, Decoding
  <2>2. IsFiniteSet(StoredIn(quoted')) /\ m = n + 1
    BY <2>1, <1>2, <1>3, StoredGrows
  <2> HIDE DEF n, m
  <2>3. (n + 1) % SERVER_STOCK = IF (n % SERVER_STOCK) + 1 = SERVER_STOCK
                                 THEN 0 ELSE (n % SERVER_STOCK) + 1
    BY <1>1, <1>3, CountWraps
  <2>4. g_current_stocks = n % SERVER_STOCK
    BY <1>4, <2>1
  <2> QED
    BY <2>1, <2>2, <2>3, <2>4
<1> HIDE DEF n, m
<1>7. CASE StoreRecord
  BY <1>5, <1>6, <1>7 DEF StoreRecord
<1>8. CASE GetAll
  BY <1>5, <1>6, <1>8 DEF GetAll
<1>9. CASE GetAllAndCompute
  BY <1>5, <1>6, <1>9 DEF GetAllAndCompute
<1>10. ASSUME UNCHANGED <<g_current_stocks, quoted>>,
              server' \in {"coefficient", "aborted"}
                <=> server \in {"coefficient", "aborted"}
       PROVE  CountInv'
  <2>1. m = n
    BY <1>10 DEF n, m
  <2> QED
    BY <2>1, <1>3, <1>4, <1>5, <1>10
<1>11. CASE \/ CallbackReject
            \/ \E d \in Datagram : CallbackDone(d) \/ CallbackEnter(d)
            \/ SkipRecord \/ CallbackReturn \/ Abort \/ Finish
            \/ UNCHANGED vars
  BY <1>10, <1>11 DEF CallbackReject, CallbackDone, CallbackEnter, SkipRecord,
                      CallbackReturn, Abort, Finish, pricing, vars, Deliver,
                      Decoding
<1> QED
  BY <1>7, <1>8, <1>9, <1>11 DEF Next

(* The round counter is the number of prices stored modulo SERVER_STOCK,   *)
(* for every number of stocks and whatever the network lost or repeated    *)
(* (main.cpp, lines 204 to 213).                                           *)
THEOREM RoundsAreCounted == Spec => []RoundIsCount
<1>1. CountInv => RoundIsCount
  BY DEF CountInv
<1> QED
  BY <1>1, InitCount, NextCount, IInvHolds, PTL DEF Spec

-----------------------------------------------------------------------------
(* Payload, Record, Framed and Replay, of any file of which the first m    *)
(* records have been looked at; and FileReplaysPrices, of any file and     *)
(* history.                                                                *)
PayloadOf(file, n) == file[n \div GROUP_STOCK + 1]
RecordOf(file, n) == PayloadOf(file, n).rec[n % GROUP_STOCK]

FramedOf(file, payloads) == \A k \in 1 .. payloads : file[k].len = PAYLOAD

ReplayOf(file, m, s) ==
  {n \in 0 .. m - 1 : /\ FramedOf(file, n \div GROUP_STOCK + 1)
                      /\ PayloadOf(file, n).loop # -1
                      /\ RecordOf(file, n).id = s}

LogIs(file, m, hist) ==
  \A s \in Stock :
    /\ Cardinality(ReplayOf(file, m, s)) <= Len(hist[s])
    /\ FramedOf(file, Len(file)) =>
         Cardinality(ReplayOf(file, m, s)) = Len(hist[s])
    /\ \A n \in ReplayOf(file, m, s) :
         hist[s][Cardinality(ReplayOf(file, m, s) \cap 0 .. n)]
           = RecordOf(file, n).close

(* The records of a file are those of its payloads.                        *)
LEMMA RecordInFile ==
  ASSUME NEW file \in Seq(Saved), NEW n \in 0 .. GROUP_STOCK * Len(file) - 1
  PROVE  n \div GROUP_STOCK + 1 \in 1 .. Len(file)
<1>1. GROUP_STOCK \in Nat \ {0} /\ Len(file) \in Nat
  BY ServerAssumption
<1> DEFINE q == n \div GROUP_STOCK
           r == n % GROUP_STOCK
<1>2. n = GROUP_STOCK * q + r /\ q \in Int /\ r \in 0 .. GROUP_STOCK - 1
  BY <1>1
<1>3. q >= 0
  BY <1>1
<1> HIDE DEF q, r
<1>4. ASSUME Len(file) <= q PROVE FALSE
  <2>1. PICK f \in Nat : q = Len(file) + f
    <3>1. q - Len(file) \in Nat /\ q = Len(file) + (q - Len(file))
      BY <1>1, <1>2, <1>4
    <3> QED
      BY <3>1
  <2>2. GROUP_STOCK * q = GROUP_STOCK * Len(file) + GROUP_STOCK * f
    BY <2>1, <1>1
  <2>3. GROUP_STOCK * f >= 0
    BY <1>1
  <2> QED
    BY <2>2, <2>3, <1>1, <1>2
<1> QED
  BY <1>1, <1>2, <1>3, <1>4 DEF q

(* A payload appended to the file leaves the records before it alone.      *)
LEMMA AppendKeeps ==
  ASSUME NEW file \in Seq(Saved), NEW d \in Saved,
         NEW n \in 0 .. GROUP_STOCK * Len(file) - 1
  PROVE  /\ FramedOf(Append(file, d), n \div GROUP_STOCK + 1)
              <=> FramedOf(file, n \div GROUP_STOCK + 1)
         /\ PayloadOf(Append(file, d), n) = PayloadOf(file, n)
         /\ RecordOf(Append(file, d), n) = RecordOf(file, n)
<1>1. n \div GROUP_STOCK + 1 \in 1 .. Len(file)
  BY RecordInFile
<1>2. \A i \in 1 .. Len(file) : Append(file, d)[i] = file[i]
  BY AppendProperties
<1>3. PayloadOf(Append(file, d), n) = PayloadOf(file, n)
  BY <1>1, <1>2 DEF PayloadOf
<1>4. FramedOf(Append(file, d), n \div GROUP_STOCK + 1)
        <=> FramedOf(file, n \div GROUP_STOCK + 1)
  <2> DEFINE q == n \div GROUP_STOCK + 1
  <2>1. q \in 1 .. Len(file) /\ Len(file) \in Nat
    BY <1>1
  <2> HIDE DEF q
  <2>2. \A i \in 1 .. q : i \in 1 .. Len(file)
    BY <2>1
  <2>3. FramedOf(Append(file, d), q) <=> FramedOf(file, q)
    BY <2>2, <1>2 DEF FramedOf
  <2> QED
    BY <2>3 DEF q
<1> HIDE DEF PayloadOf, FramedOf
<1> QED
  BY <1>3, <1>4 DEF RecordOf

(* A file is framed only if it was before its last payload.                *)
LEMMA FramedBefore ==
  ASSUME NEW file \in Seq(Saved), NEW d \in Saved,
         FramedOf(Append(file, d), Len(Append(file, d)))
  PROVE  FramedOf(file, Len(file))
<1>1. /\ Len(Append(file, d)) = Len(file) + 1 /\ Len(file) \in Nat
      /\ \A i \in 1 .. Len(file) : Append(file, d)[i] = file[i]
  BY AppendProperties
<1> QED
  BY <1>1 DEF FramedOf

(* The numbers of the records of the last payload of a file.               *)
LEMMA LastPayload ==
  ASSUME NEW file \in Seq(Saved), Len(file) # 0,
         NEW j \in 0 .. GROUP_STOCK - 1
  PROVE  LET n == GROUP_STOCK * Len(file) - GROUP_STOCK + j
         IN  /\ n \in 0 .. GROUP_STOCK * Len(file) - 1
             /\ n \div GROUP_STOCK + 1 = Len(file)
             /\ PayloadOf(file, n) = file[Len(file)]
             /\ RecordOf(file, n) = file[Len(file)].rec[j]
<1>1. GROUP_STOCK \in Nat \ {0} /\ Len(file) \in Nat \ {0}
  BY ServerAssumption
<1> DEFINE n == GROUP_STOCK * Len(file) - GROUP_STOCK + j
<1>2. n = GROUP_STOCK * (Len(file) - 1) + j /\ Len(file) - 1 \in Nat
  BY <1>1
<1>3. n \div GROUP_STOCK = Len(file) - 1 /\ n % GROUP_STOCK = j
  <2> DEFINE p == Len(file) - 1
  <2>1. p \in Nat /\ n = GROUP_STOCK * p + j
    BY <1>2
  <2> HIDE DEF p, n
  <2>2. n \div GROUP_STOCK = p /\ n % GROUP_STOCK = j
    BY <1>1, <2>1, DivModUnique
  <2> QED
    BY <2>2 DEF p
<1>4. GROUP_STOCK * (Len(file) - 1) >= 0
  BY <1>1
<1>5. n \in 0 .. GROUP_STOCK * Len(file) - 1
  BY <1>1, <1>2, <1>4
<1> HIDE DEF n
<1>6. n \div GROUP_STOCK + 1 = Len(file)
  BY <1>1, <1>3
<1>7. PayloadOf(file, n) = file[Len(file)]
  BY <1>6 DEF PayloadOf
<1> QED
  BY <1>3, <1>5, <1>6, <1>7 DEF RecordOf, n

(* Two files whose replays and records agree describe the same history.    *)
LEMMA SameReplay ==
  ASSUME NEW file, NEW new, NEW m, NEW k, NEW hist, LogIs(file, m, hist),
         \A s \in Stock : ReplayOf(new, k, s) = ReplayOf(file, m, s),
         \A s \in Stock : \A n \in ReplayOf(file, m, s) :
            RecordOf(new, n) = RecordOf(file, n),
         FramedOf(new, Len(new)) => FramedOf(file, Len(file))
  PROVE  LogIs(new, k, hist)
<1> SUFFICES ASSUME NEW s \in Stock
             PROVE  /\ Cardinality(ReplayOf(new, k, s)) <= Len(hist[s])
                    /\ FramedOf(new, Len(new)) =>
                         Cardinality(ReplayOf(new, k, s)) = Len(hist[s])
                    /\ \A n \in ReplayOf(new, k, s) :
                         hist[s][Cardinality(ReplayOf(new, k, s) \cap 0 .. n)]
                           = RecordOf(new, n).close
  BY DEF LogIs
<1>1. ReplayOf(new, k, s) = ReplayOf(file, m, s)
  OBVIOUS
<1>2. \A n \in ReplayOf(file, m, s) : RecordOf(new, n) = RecordOf(file, n)
  OBVIOUS
<1>3. /\ Cardinality(ReplayOf(file, m, s)) <= Len(hist[s])
      /\ FramedOf(file, Len(file)) =>
           Cardinality(ReplayOf(file, m, s)) = Len(hist[s])
      /\ \A n \in ReplayOf(file, m, s) :
           hist[s][Cardinality(ReplayOf(file, m, s) \cap 0 .. n)]
             = RecordOf(file, n).close
  BY DEF LogIs
<1> HIDE DEF ReplayOf, RecordOf, FramedOf
<1> QED
  BY <1>1, <1>2, <1>3

(* A payload is written to stocks.db before its records are decoded.       *)
LEMMA LogAppend ==
  ASSUME NEW file \in Seq(Saved), NEW d \in Saved, NEW hist,
         LogIs(file, GROUP_STOCK * Len(file), hist)
  PROVE  LogIs(Append(file, d), GROUP_STOCK * Len(file), hist)
<1> DEFINE m == GROUP_STOCK * Len(file)
           new == Append(file, d)
<1>1. \A n \in 0 .. m - 1 : /\ FramedOf(new, n \div GROUP_STOCK + 1)
                                 <=> FramedOf(file, n \div GROUP_STOCK + 1)
                            /\ PayloadOf(new, n) = PayloadOf(file, n)
                            /\ RecordOf(new, n) = RecordOf(file, n)
  BY AppendKeeps
<1>2. FramedOf(new, Len(new)) => FramedOf(file, Len(file))
  BY FramedBefore
<1> HIDE DEF m, new
<1>3. \A s : \A n \in ReplayOf(file, m, s) : n \in 0 .. m - 1
  BY DEF ReplayOf
<1>4. \A s \in Stock : ReplayOf(new, m, s) = ReplayOf(file, m, s)
  BY <1>1 DEF ReplayOf
<1>5. \A s \in Stock : \A n \in ReplayOf(file, m, s) :
        RecordOf(new, n) = RecordOf(file, n)
  BY <1>1, <1>3
<1>6. LogIs(file, m, hist)
  BY DEF m
<1>7. LogIs(new, m, hist)
  BY <1>4, <1>5, <1>6, <1>2, SameReplay
<1> QED
  BY <1>7 DEF m, new

(* The payload of a computed loop is in the file but not in the replay.    *)
LEMMA LogDone ==
  ASSUME NEW file \in Seq(Saved), NEW d \in Saved, d.loop = -1, NEW hist,
         LogIs(file, GROUP_STOCK * Len(file), hist)
  PROVE  LogIs(Append(file, d), GROUP_STOCK * Len(Append(file, d)), hist)
<1>1. GROUP_STOCK \in Nat \ {0} /\ Len(file) \in Nat
  BY ServerAssumption
<1> DEFINE m == GROUP_STOCK * Len(file)
           new == Append(file, d)
           k == GROUP_STOCK * Len(new)
<1>2. /\ new \in Seq(Saved) /\ Len(new) = Len(file) + 1
      /\ new[Len(new)] = d
  BY AppendProperties
<1>3. m \in Nat /\ k = m + GROUP_STOCK
  BY <1>1, <1>2
<1>4. \A n \in 0 .. m - 1 : /\ FramedOf(new, n \div GROUP_STOCK + 1)
                                 <=> FramedOf(file, n \div GROUP_STOCK + 1)
                            /\ PayloadOf(new, n) = PayloadOf(file, n)
                            /\ RecordOf(new, n) = RecordOf(file, n)
  BY AppendKeeps
<1>5. \A j \in 0 .. GROUP_STOCK - 1 :
        PayloadOf(new, GROUP_STOCK * Len(new) - GROUP_STOCK + j) = d
  <2>1. new \in Seq(Saved) /\ Len(new) # 0 /\ new[Len(new)] = d
    BY <1>1, <1>2
  <2> HIDE DEF new
  <2> QED
    BY <2>1, LastPayload
<1>6. LogIs(file, m, hist) /\ (FramedOf(new, Len(new)) => FramedOf(file, Len(file)))
  BY FramedBefore
<1> HIDE DEF m, new
<1>7. \A n \in m .. k - 1 : PayloadOf(new, n).loop = -1
  <2> SUFFICES ASSUME NEW n \in m .. k - 1 PROVE PayloadOf(new, n) = d
    OBVIOUS
  <2>1. n - m \in 0 .. GROUP_STOCK - 1 /\ n = k - GROUP_STOCK + (n - m)
    BY <1>1, <1>3
  <2> QED
    BY <2>1, <1>5
<1> HIDE DEF k
<1>8. \A s \in Stock : ReplayOf(new, k, s) = ReplayOf(file, m, s)
  <2> SUFFICES ASSUME NEW s \in Stock
               PROVE  ReplayOf(new, k, s) = ReplayOf(file, m, s)
    OBVIOUS
  <2>1. 0 .. k - 1 = (0 .. m - 1) \cup (m .. k - 1)
    BY <1>1, <1>3
  <2>2. \A n \in 0 .. m - 1 :
          n \in ReplayOf(new, k, s) <=> n \in ReplayOf(file, m, s)
    BY <2>1, <1>4 DEF ReplayOf
  <2>3. \A n \in m .. k - 1 : n \notin ReplayOf(new, k, s)
    BY <1>7 DEF ReplayOf
  <2>4. /\ ReplayOf(new, k, s) \subseteq 0 .. k - 1
        /\ ReplayOf(file, m, s) \subseteq 0 .. m - 1
    BY DEF ReplayOf
  <2> HIDE DEF ReplayOf
  <2> QED
    BY <2>1, <2>2, <2>3, <2>4
<1>9. \A s \in Stock : \A n \in ReplayOf(file, m, s) :
        RecordOf(new, n) = RecordOf(file, n)
  BY <1>4 DEF ReplayOf
<1>10. LogIs(new, k, hist)
  BY <1>6, <1>8, <1>9, SameReplay
<1> QED
  BY <1>10 DEF k, new

(* The record of a stock the server does not follow adds nothing.          *)
LEMMA LogSkip ==
  ASSUME NEW file, NEW m \in Nat, NEW hist, LogIs(file, m, hist),
         FramedOf(file, m \div GROUP_STOCK + 1) =>
           RecordOf(file, m).id \notin Stock
  PROVE  LogIs(file, m + 1, hist)
<1>1. \A s \in Stock : ReplayOf(file, m + 1, s) = ReplayOf(file, m, s)
  <2> SUFFICES ASSUME NEW s \in Stock
               PROVE  ReplayOf(file, m + 1, s) = ReplayOf(file, m, s)
    OBVIOUS
  <2>1. 0 .. m + 1 - 1 = 0 .. m - 1 \cup {m}
    OBVIOUS
  <2> QED
    BY <2>1 DEF ReplayOf
<1> QED
  BY <1>1, SameReplay

(* The record of a followed stock adds its price to the history of that    *)
(* stock, as the last one; in the file it is, if the reader gets there.    *)
LEMMA LogStore ==
  ASSUME NEW file, NEW m \in Nat, NEW hist \in Prices, LogIs(file, m, hist),
         FramedOf(file, Len(file)), m \div GROUP_STOCK + 1 = Len(file),
         PayloadOf(file, m).loop # -1,
         NEW id \in Stock, RecordOf(file, m).id = id,
         NEW price \in Price, RecordOf(file, m).close = price
  PROVE  LogIs(file, m + 1, [hist EXCEPT ![id] = Append(@, price)])
<1> DEFINE new == [hist EXCEPT ![id] = Append(@, price)]
<1>1. 0 .. m + 1 - 1 = 0 .. m - 1 \cup {m} /\ m \notin 0 .. m - 1
  OBVIOUS
<1>2. \A s \in Stock : s # id => new[s] = hist[s]
  BY DEF Prices
<1>3. /\ hist[id] \in Seq(Price) /\ Len(hist[id]) \in Nat
      /\ Len(new[id]) = Len(hist[id]) + 1
      /\ new[id][Len(hist[id]) + 1] = price
      /\ \A i \in 1 .. Len(hist[id]) : new[id][i] = hist[id][i]
  BY AppendProperties DEF Prices
<1> HIDE DEF new
<1>4. ASSUME NEW s \in Stock, s # id
      PROVE  ReplayOf(file, m + 1, s) = ReplayOf(file, m, s)
  BY <1>1, <1>4 DEF ReplayOf
<1>5. ReplayOf(file, m + 1, id) = ReplayOf(file, m, id) \cup {m}
  BY <1>1 DEF ReplayOf
<1> DEFINE old == ReplayOf(file, m, id)
<1>6. old \subseteq 0 .. m - 1
  BY DEF ReplayOf
<1>7. ASSUME NEW T \in SUBSET (0 .. m - 1)
      PROVE  IsFiniteSet(T) /\ Cardinality(T) \in Nat
  <2>1. 0 \in Int /\ m - 1 \in Int
    OBVIOUS
  <2>2. IsFiniteSet(0 .. m - 1)
    BY <2>1, FS_Interval
  <2> QED
    BY <2>2, FS_Subset, FS_CardinalityType
<1>8. /\ Cardinality(old) = Len(hist[id])
      /\ \A n \in old : hist[id][Cardinality(old \cap 0 .. n)]
                          = RecordOf(file, n).close
  BY DEF LogIs
<1>9. \A s \in Stock \ {id} :
        /\ Cardinality(ReplayOf(file, m, s)) = Len(hist[s])
        /\ Len(hist[s]) \in Nat
        /\ \A n \in ReplayOf(file, m, s) :
             hist[s][Cardinality(ReplayOf(file, m, s) \cap 0 .. n)]
               = RecordOf(file, n).close
  BY DEF LogIs, Prices
<1> HIDE DEF old
<1>10. Cardinality(old \cup {m}) = Cardinality(old) + 1
  <2>1. m \notin old /\ IsFiniteSet(old)
    BY <1>1, <1>6, <1>7
  <2> QED
    BY <2>1, FS_AddElement
<1>11. ASSUME NEW n \in old \cup {m}
       PROVE  new[id][Cardinality((old \cup {m}) \cap 0 .. n)]
                = RecordOf(file, n).close
  <2>1. CASE n = m
    <3>1. (old \cup {m}) \cap 0 .. m = old \cup {m}
      <4>1. old \cup {m} \subseteq 0 .. m
        BY <1>6
      <4> QED
        BY <4>1
    <3>2. Cardinality((old \cup {m}) \cap 0 .. n) = Len(hist[id]) + 1
      BY <3>1, <2>1, <1>8, <1>10
    <3>3. RecordOf(file, n).close = price
      BY <2>1
    <3> QED
      BY <3>2, <3>3, <1>3
  <2>2. CASE n \in old
    <3>1. n \in 0 .. m - 1
      BY <2>2, <1>6
    <3>2. (old \cup {m}) \cap 0 .. n = old \cap 0 .. n
      BY <3>1
    <3> DEFINE T == old \cap 0 .. n
    <3>3. IsFiniteSet(old) /\ IsFiniteSet(T) /\ Cardinality(T) \in Nat
          /\ Cardinality(T) <= Cardinality(old) /\ Cardinality(old) \in Nat
      <4>1. T \in SUBSET old /\ T \in SUBSET (0 .. m - 1)
        BY <1>6
      <4> QED
        BY <4>1, <1>6, <1>7, FS_Subset
    <3>4. Cardinality(T) # 0
      <4>1. n \in T
        BY <2>2, <3>1
      <4> QED
        BY <4>1, <3>3, FS_EmptySet
    <3>5. Cardinality(T) \in 1 .. Len(hist[id])
      BY <3>3, <3>4, <1>8
    <3> QED
      BY <3>2, <3>5, <2>2, <1>3, <1>8
  <2> QED
    BY <2>1, <2>2
<1>12. ASSUME NEW s \in Stock
       PROVE  /\ Cardinality(ReplayOf(file, m + 1, s)) = Len(new[s])
              /\ Len(new[s]) \in Nat
              /\ \A n \in ReplayOf(file, m + 1, s) :
                   new[s][Cardinality(ReplayOf(file, m + 1, s) \cap 0 .. n)]
                     = RecordOf(file, n).close
  <2>1. CASE s # id
    <3>1. ReplayOf(file, m + 1, s) = ReplayOf(file, m, s) /\ new[s] = hist[s]
      BY <2>1, <1>2, <1>4
    <3> HIDE DEF ReplayOf, RecordOf
    <3> QED
      BY <2>1, <3>1, <1>9
  <2>2. CASE s = id
    <3>1. ReplayOf(file, m + 1, s) = old \cup {m}
      BY <2>2, <1>5 DEF old
    <3> HIDE DEF ReplayOf, RecordOf
    <3>2. Cardinality(old \cup {m}) = Len(new[s]) /\ Len(new[s]) \in Nat
      BY <2>2, <1>3, <1>8, <1>10
    <3> QED
      BY <2>2, <3>1, <3>2, <1>11
  <2> QED
    BY <2>1, <2>2
<1>13. \A s \in Stock : Cardinality(ReplayOf(file, m + 1, s)) <= Len(new[s])
  BY <1>12
<1> QED
  BY <1>12, <1>13 DEF LogIs, new

(* Once the reader has lost its place, a price is stored and not replayed. *)
LEMMA LogLost ==
  ASSUME NEW file, NEW m \in Nat, NEW hist \in Prices, LogIs(file, m, hist),
         ~FramedOf(file, Len(file)), m \div GROUP_STOCK + 1 = Len(file),
         NEW id \in Stock, NEW price \in Price
  PROVE  LogIs(file, m + 1, [hist EXCEPT ![id] = Append(@, price)])
<1> DEFINE new == [hist EXCEPT ![id] = Append(@, price)]
<1>1. 0 .. m + 1 - 1 = 0 .. m - 1 \cup {m}
  OBVIOUS
<1>2. \A s \in Stock : ReplayOf(file, m + 1, s) = ReplayOf(file, m, s)
  BY <1>1 DEF ReplayOf
<1>3. \A s \in Stock :
        /\ Len(hist[s]) \in Nat /\ Len(new[s]) \in Nat
        /\ Len(hist[s]) <= Len(new[s])
        /\ \A i \in 1 .. Len(hist[s]) : new[s][i] = hist[s][i]
  BY AppendProperties DEF Prices
<1> HIDE DEF new
<1>4. ASSUME NEW s \in Stock
      PROVE  /\ Cardinality(ReplayOf(file, m, s)) <= Len(new[s])
             /\ \A n \in ReplayOf(file, m, s) :
                  new[s][Cardinality(ReplayOf(file, m, s) \cap 0 .. n)]
                    = RecordOf(file, n).close
  <2> DEFINE old == ReplayOf(file, m, s)
  <2>1. old \subseteq 0 .. m - 1
    BY DEF ReplayOf
  <2>2. /\ Cardinality(old) <= Len(hist[s])
        /\ \A n \in old :
             hist[s][Cardinality(old \cap 0 .. n)] = RecordOf(file, n).close
    BY DEF LogIs
  <2> HIDE DEF old
  <2>3. IsFiniteSet(old) /\ Cardinality(old) \in Nat
    <3>1. 0 \in Int /\ m - 1 \in Int
      OBVIOUS
    <3>2. IsFiniteSet(0 .. m - 1)
      BY <3>1, FS_Interval
    <3> QED
      BY <3>2, <2>1, FS_Subset, FS_CardinalityType
  <2>4. ASSUME NEW n \in old
        PROVE  Cardinality(old \cap 0 .. n) \in 1 .. Len(hist[s])
    <3> DEFINE T == old \cap 0 .. n
    <3>1. T \in SUBSET old /\ n \in T
      BY <2>1
    <3>2. /\ IsFiniteSet(T) /\ Cardinality(T) \in Nat
          /\ Cardinality(T) <= Cardinality(old)
      BY <3>1, <2>3, FS_Subset, FS_CardinalityType
    <3>3. Cardinality(T) # 0
      BY <3>1, <3>2, FS_EmptySet
    <3> QED
      BY <3>2, <3>3, <2>2, <2>3, <1>3
  <2>5. Cardinality(old) <= Len(new[s])
    BY <2>2, <2>3, <1>3
  <2>6. \A n \in old :
          new[s][Cardinality(old \cap 0 .. n)] = RecordOf(file, n).close
    BY <2>2, <2>4, <1>3
  <2> QED
    BY <2>5, <2>6 DEF old
<1>5. LogIs(file, m + 1, new)
  BY <1>2, <1>4 DEF LogIs
<1> QED
  BY <1>5 DEF new

(* FileReplaysPrices with what makes it inductive: what was captured of    *)
(* the payload being decoded is the last in the file, and the payload not  *)
(* of a computed loop.                                                     *)
LogInv ==
  /\ server \in {"callback", "coefficient", "aborted"} =>
       /\ Len(g_pFile) # 0
       /\ g_pFile[Len(g_pFile)] = Written(packet)
       /\ packet.loop # -1
  /\ server \in {"coefficient", "aborted"} => slot < GROUP_STOCK
  /\ LogIs(g_pFile, Replayed, quoted)

(* The general form says the same of the server's file and history.        *)
LEMMA LogIsFile ==
  ASSUME TypeOK
  PROVE  LogIs(g_pFile, Replayed, quoted) <=> FileReplaysPrices
<1>1. g_last_done_loop = -1
  BY DEF TypeOK
<1>2. \A n : PayloadOf(g_pFile, n) = Payload(n) /\ RecordOf(g_pFile, n) = Record(n)
  BY DEF PayloadOf, Payload, RecordOf, Record
<1>3. \A k : FramedOf(g_pFile, k) = Framed(k)
  BY DEF FramedOf, Framed
<1>4. \A s : ReplayOf(g_pFile, Replayed, s) = Replay(s)
  BY <1>1, <1>2, <1>3 DEF ReplayOf, Replay
<1> QED
  BY <1>2, <1>3, <1>4 DEF LogIs, FileReplaysPrices

(* The file is opened empty.                                               *)
LEMMA InitLog == Init => LogInv
<1> SUFFICES ASSUME Init PROVE LogInv
  OBVIOUS
<1>1. GROUP_STOCK \in Nat \ {0}
  BY ServerAssumption
<1>2. g_pFile = << >> /\ server = "capturing" /\ quoted = [s \in Stock |-> << >>]
  BY DEF Init
<1>3. Replayed = 0
  BY <1>1, <1>2 DEF Replayed, Pending
<1>4. \A s : ReplayOf(g_pFile, 0, s) = {}
  BY DEF ReplayOf
<1>5. Cardinality({}) = 0
  BY FS_EmptySet
<1>6. LogIs(g_pFile, 0, quoted)
  <2>1. \A s \in Stock : Len(quoted[s]) = 0
    BY <1>2
  <2> HIDE DEF ReplayOf, RecordOf, FramedOf
  <2>2. \A s \in Stock :
          /\ Cardinality(ReplayOf(g_pFile, 0, s)) = Len(quoted[s])
          /\ Cardinality(ReplayOf(g_pFile, 0, s)) <= Len(quoted[s])
    BY <2>1, <1>4, <1>5
  <2>3. \A s \in Stock : \A n \in ReplayOf(g_pFile, 0, s) : FALSE
    BY <1>4
  <2> QED
    BY <2>2, <2>3 DEF LogIs
<1> QED
  BY <1>2, <1>3, <1>6 DEF LogInv

(* A payload of the client's length is written whole.                      *)
LEMMA WrittenWhole ==
  ASSUME NEW d \in Datagram, NEW j \in 0 .. GROUP_STOCK - 1,
         Written(d).len = PAYLOAD
  PROVE  Written(d).rec[j] = d.rec[j]
<1>1. d.len = PAYLOAD /\ GROUP_STOCK \in Nat
  BY ServerAssumption DEF Written
<1>2. 4 + 20 * (j + 1) <= PAYLOAD
  BY <1>1 DEF PAYLOAD
<1> QED
  BY <1>1, <1>2 DEF Written

(* The record my_callback is at is the first one of the file that has not  *)
(* been looked at, if the reader of the file gets there.                   *)
LEMMA CurrentRecord ==
  ASSUME TypeOK, LogInv, Decoding
  PROVE  /\ Replayed \in Nat
         /\ Replayed = GROUP_STOCK * Len(g_pFile) - GROUP_STOCK + slot
         /\ Replayed \div GROUP_STOCK + 1 = Len(g_pFile)
         /\ PayloadOf(g_pFile, Replayed).loop # -1
         /\ FramedOf(g_pFile, Len(g_pFile)) =>
              RecordOf(g_pFile, Replayed) = Current
<1>1. /\ GROUP_STOCK \in Nat \ {0}
      /\ slot \in 0 .. GROUP_STOCK - 1 /\ packet \in Datagram
      /\ g_pFile \in Seq(Saved) /\ Len(g_pFile) \in Nat
  BY ServerAssumption DEF Decoding, TypeOK, Saved
<1>2. /\ Len(g_pFile) # 0
      /\ g_pFile[Len(g_pFile)] = Written(packet)
      /\ packet.loop # -1
  BY DEF LogInv, Decoding
<1>3. GROUP_STOCK * Len(g_pFile) \in Nat
  BY <1>1
<1> DEFINE n == GROUP_STOCK * Len(g_pFile) - GROUP_STOCK + slot
<1>4. Replayed = n
  BY <1>1, <1>3 DEF Replayed, Pending, Decoding
<1>5. /\ n \in 0 .. GROUP_STOCK * Len(g_pFile) - 1
      /\ n \div GROUP_STOCK + 1 = Len(g_pFile)
      /\ PayloadOf(g_pFile, n) = g_pFile[Len(g_pFile)]
      /\ RecordOf(g_pFile, n) = g_pFile[Len(g_pFile)].rec[slot]
  BY <1>1, <1>2, LastPayload
<1> HIDE DEF n
<1>6. PayloadOf(g_pFile, n).loop # -1
  BY <1>2, <1>5 DEF Written
<1>7. ASSUME FramedOf(g_pFile, Len(g_pFile))
      PROVE  RecordOf(g_pFile, n) = Current
  <2>1. Written(packet).len = PAYLOAD
    BY <1>1, <1>2, <1>7 DEF FramedOf
  <2>2. Written(packet).rec[slot] = packet.rec[slot]
    BY <2>1, <1>1, WrittenWhole
  <2> QED
    BY <2>2, <1>2, <1>5 DEF Current
<1> QED
  BY <1>3, <1>4, <1>5, <1>6, <1>7 DEF n

(* Every step of the server keeps stocks.db a log of the prices stored     *)
(* (main.cpp, lines 180 to 203).                                           *)
LEMMA NextLog == IInv /\ LogInv /\ [Next]_vars => LogInv'
<1> SUFFICES ASSUME IInv, LogInv, [Next]_vars PROVE LogInv'
  OBVIOUS
<1>1. TypeOK /\ quoted \in Prices /\ g_pFile \in Seq(Saved)
  BY DEF IInv, TypeOK, Prices, Saved
<1>2. /\ GROUP_STOCK \in Nat \ {0} /\ slot \in 0 .. GROUP_STOCK
      /\ Len(g_pFile) \in Nat /\ GROUP_STOCK * Len(g_pFile) \in Nat
      /\ g_last_done_loop = -1
  BY <1>1, ServerAssumption DEF TypeOK
<1>3. LogIs(g_pFile, Replayed, quoted)
  BY DEF LogInv
<1>4. ASSUME server = "capturing"
      PROVE  Replayed = GROUP_STOCK * Len(g_pFile)
  BY <1>2, <1>4 DEF Replayed, Pending
<1>5. CASE CallbackReject
  <2>1. Replayed' = Replayed
    BY <1>5 DEF CallbackReject, Replayed, Pending
  <2> QED
    BY <2>1, <1>3, <1>5 DEF CallbackReject, Deliver, LogInv
<1>6. ASSUME NEW d \in Datagram, CallbackDone(d) PROVE LogInv'
  <2>1. /\ g_pFile' = Append(g_pFile, Written(d)) /\ Written(d).loop = -1
        /\ Written(d) \in Saved
        /\ server = "capturing" /\ server' = "capturing" /\ quoted' = quoted
    BY <1>2, <1>6 DEF CallbackDone, Deliver, Written, Saved
  <2>2. Len(g_pFile') \in Nat
    BY <2>1, <1>1, AppendProperties
  <2>3. Replayed' = GROUP_STOCK * Len(g_pFile')
    BY <2>1, <2>2, <1>2 DEF Replayed, Pending
  <2>4. LogIs(g_pFile', GROUP_STOCK * Len(g_pFile'), quoted)
    BY <2>1, <1>1, <1>3, <1>4, LogDone
  <2> QED
    BY <2>1, <2>3, <2>4 DEF LogInv
<1>7. ASSUME NEW d \in Datagram, CallbackEnter(d) PROVE LogInv'
  <2>1. /\ g_pFile' = Append(g_pFile, Written(d)) /\ d.loop # -1 /\ packet' = d
        /\ slot' = 0 /\ Written(d) \in Saved
        /\ server = "capturing" /\ server' = "callback" /\ quoted' = quoted
    BY <1>2, <1>7 DEF CallbackEnter, Deliver, Saved
  <2>2. /\ Len(g_pFile') = Len(g_pFile) + 1
        /\ g_pFile'[Len(g_pFile) + 1] = Written(d)
    BY <2>1, <1>1, AppendProperties
  <2>3. Replayed' = GROUP_STOCK * Len(g_pFile)
    <3>1. Replayed' = GROUP_STOCK * (Len(g_pFile) + 1) - (GROUP_STOCK - 0)
      BY <2>1, <2>2 DEF Replayed, Pending
    <3> QED
      BY <3>1, <1>2
  <2>4. LogIs(g_pFile', GROUP_STOCK * Len(g_pFile), quoted)
    BY <2>1, <1>1, <1>3, <1>4, LogAppend
  <2> QED
    BY <2>1, <2>2, <2>3, <2>4, <1>2 DEF LogInv
<1>8. CASE SkipRecord
  <2>1. /\ Decoding /\ Current.id \notin Stock /\ slot' = slot + 1
        /\ UNCHANGED <<g_pFile, packet, server, quoted>>
    BY <1>8 DEF SkipRecord
  <2>2. Replayed' = Replayed + 1
    BY <2>1, <1>2 DEF Replayed, Pending, Decoding
  <2>3. LogIs(g_pFile, Replayed + 1, quoted)
    BY <2>1, <1>1, <1>3, CurrentRecord, LogSkip
  <2> QED
    BY <2>1, <2>2, <2>3 DEF LogInv, Decoding
<1>9. ASSUME StorePrice
      PROVE  LogIs(g_pFile', Replayed + 1, quoted')
  <2>1. /\ Decoding /\ Current.id \in Stock /\ Current.close \in Price
        /\ quoted' = [quoted EXCEPT ![Current.id] = Append(@, Current.close)]
        /\ g_pFile' = g_pFile
    BY <1>9, StoreLemma DEF StorePrice
  <2>2. /\ Replayed \in Nat
        /\ Replayed \div GROUP_STOCK + 1 = Len(g_pFile)
        /\ PayloadOf(g_pFile, Replayed).loop # -1
        /\ FramedOf(g_pFile, Len(g_pFile)) =>
             RecordOf(g_pFile, Replayed) = Current
    BY <2>1, <1>1, CurrentRecord
  <2> HIDE DEF Current, Replayed, PayloadOf, RecordOf, FramedOf
  <2>3. CASE FramedOf(g_pFile, Len(g_pFile))
    BY <2>1, <2>2, <2>3, <1>1, <1>3, LogStore
  <2>4. CASE ~FramedOf(g_pFile, Len(g_pFile))
    BY <2>1, <2>2, <2>4, <1>1, <1>3, LogLost
  <2> QED
    BY <2>3, <2>4
<1>10. CASE StoreRecord \/ GetAll
  <2>1. /\ StorePrice /\ Decoding /\ slot' = slot + 1
        /\ UNCHANGED <<g_pFile, packet, server>>
    BY <1>10 DEF StoreRecord, GetAll, StorePrice
  <2>2. Replayed' = Replayed + 1
    BY <2>1, <1>2 DEF Replayed, Pending, Decoding
  <2> QED
    BY <2>1, <2>2, <1>9 DEF LogInv, Decoding
<1>11. CASE GetAllAndCompute
  <2>1. /\ StorePrice /\ Decoding /\ server' = "coefficient"
        /\ UNCHANGED <<g_pFile, packet, slot>>
    BY <1>11 DEF GetAllAndCompute, StorePrice
  <2>2. Replayed' = Replayed + 1
    BY <2>1, <1>2 DEF Replayed, Pending, Decoding
  <2> QED
    BY <2>1, <2>2, <1>9 DEF LogInv, Decoding
<1>12. CASE CallbackReturn
  <2>1. Replayed' = Replayed
    BY <1>2, <1>12 DEF CallbackReturn, Replayed, Pending
  <2> QED
    BY <2>1, <1>3, <1>12 DEF CallbackReturn, LogInv
<1>13. CASE Abort
  <2>1. Replayed' = Replayed
    BY <1>13 DEF Abort, Replayed, Pending
  <2> QED
    BY <2>1, <1>3, <1>13 DEF Abort, LogInv
<1>14. CASE Finish
  <2>1. Replayed' = Replayed
    BY <1>14 DEF Finish, Replayed, Pending
  <2> QED
    BY <2>1, <1>3, <1>14 DEF Finish, LogInv
<1>15. CASE UNCHANGED vars
  <2>1. Replayed' = Replayed
    BY <1>15 DEF vars, Replayed, Pending
  <2> QED
    BY <2>1, <1>3, <1>15 DEF vars, LogInv
<1> QED
  BY <1>5, <1>6, <1>7, <1>8, <1>10, <1>11, <1>12, <1>13, <1>14, <1>15 DEF Next

(* Decoding stocks.db again gives the prices that went through a window,   *)
(* in order, all of them while every payload had the client's length and   *)
(* the first of them otherwise: for any number of stocks and records, and  *)
(* whatever datagrams of whatever length the network delivers (main.cpp,   *)
(* lines 180 to 203).                                                      *)
THEOREM FileIsLog == Spec => []FileReplaysPrices
<1>1. IInv /\ LogInv => FileReplaysPrices
  BY LogIsFile DEF IInv, LogInv
<1> QED
  BY <1>1, InitLog, NextLog, IInvHolds, PTL DEF Spec
=============================================================================
