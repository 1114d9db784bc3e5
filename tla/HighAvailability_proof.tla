----------------------- MODULE HighAvailability_proof -----------------------
(***************************************************************************)
(* Proofs about Ring, for every ring size, and about HighAvailability, for *)
(* any number of flows, packets and releases.                              *)
(*                                                                         *)
(* The indices of the ring are related to the numbers of puts and gets     *)
(* without modular arithmetic: Ahead(i) is how far slot i lies in front of *)
(* rx, and the unread values are the slots with 1 <= Ahead(i) <= Count, in *)
(* that order.                                                             *)
(*                                                                         *)
(* The partners are related by what is under way between them (KeyInv):    *)
(* while no message was lost, every deletion a node has sent for a flow it *)
(* has told of is followed by an update, its partner has the flow, will    *)
(* hear of it or has removed it by itself, and of two nodes that both hold *)
(* the flow as theirs one is still to hear from the other.                 *)
(***************************************************************************)
EXTENDS HighAvailability, TLAPS

Ahead(i) == IF i >= rx THEN i - rx ELSE i - rx + Size

(* What both access orders preserve. *)
IndexInv ==
    /\ TypeOK
    /\ wx # rx
    /\ Count = puts - gets
    /\ "index" \in wtodo => wslot = wx /\ NextIx(wx) # rx
    /\ "index" \in rtodo => rslot = NextIx(rx) /\ NextIx(rx) # wx

(* What only program order preserves: the contents of the unread slots. *)
ValueInv ==
    /\ "slot" \in wtodo => "index" \in wtodo
    /\ "slot" \in rtodo => "index" \in rtodo
    /\ \A i \in Slots : 1 <= Ahead(i) /\ Ahead(i) <= Count => store[i] = gets + Ahead(i)
    /\ wtodo = {"index"} => store[wslot] = puts + 1
    /\ GetsInOrder

(* IndexInv holds of the freshly constructed ring. *)
LEMMA IndexInit == RingInit => IndexInv
<1> SUFFICES ASSUME RingInit PROVE IndexInv
  OBVIOUS
<1> USE RingAssumption DEF RingInit
<1>1. 0 \in Slots /\ 1 \in Slots
  BY DEF Slots
<1>2. store \in [Slots -> Nat]
  OBVIOUS
<1>3. TypeOK
  BY <1>1, <1>2 DEF TypeOK
<1> QED
  BY <1>3 DEF IndexInv, Count

(* Every step of put and of get preserves IndexInv, in either order. *)
LEMMA IndexStep == IndexInv /\ [RingNext]_vars => IndexInv'
<1> SUFFICES ASSUME IndexInv, [RingNext]_vars PROVE IndexInv'
  OBVIOUS
<1> USE RingAssumption DEF IndexInv, TypeOK, Count, Slots, NextIx
<1>1. CASE PutBegin
  BY <1>1 DEF PutBegin
<1>2. CASE PutSlot
  BY <1>2 DEF PutSlot
<1>3. CASE PutIndex
  <2>1. NextIx(wx) # rx /\ wx' = NextIx(wx) /\ puts' = puts + 1
    BY <1>3 DEF PutIndex
  <2>2. wx' # rx' /\ Count' = puts' - gets'
    BY <1>3, <2>1 DEF PutIndex
  <2>3. TypeOK'
    BY <1>3, <2>1 DEF PutIndex
  <2>4. ("index" \in rtodo => rslot = NextIx(rx) /\ NextIx(rx) # wx)'
    BY <1>3, <2>1 DEF PutIndex
  <2> QED
    BY <1>3, <2>2, <2>3, <2>4 DEF PutIndex
<1>4. CASE GetBegin
  BY <1>4 DEF GetBegin
<1>5. CASE GetSlot
  BY <1>5 DEF GetSlot
<1>6. CASE GetIndex
  <2>1. NextIx(rx) # wx /\ rx' = NextIx(rx) /\ gets' = gets + 1
    BY <1>6 DEF GetIndex
  <2>2. wx' # rx' /\ Count' = puts' - gets'
    BY <1>6, <2>1 DEF GetIndex
  <2>3. TypeOK'
    BY <1>6, <2>1 DEF GetIndex
  <2>4. ("index" \in wtodo => wslot = wx /\ NextIx(wx) # rx)'
    BY <1>6, <2>1 DEF GetIndex
  <2> QED
    BY <1>6, <2>2, <2>3, <2>4 DEF GetIndex
<1>7. CASE UNCHANGED vars
  BY <1>7 DEF vars
<1> QED
  BY <1>1, <1>2, <1>3, <1>4, <1>5, <1>6, <1>7 DEF RingNext

(* The two indices alone determine the backlog and its bound. *)
LEMMA IndexImplies == IndexInv => CountIsBacklog
  BY RingAssumption DEF IndexInv, TypeOK, CountIsBacklog, Count, Full, Slots

(* Whatever the order of the slot access and the index store, count() is   *)
(* the backlog, at most Size - 2, and push() and pop() never fail.         *)
THEOREM RingBacklog == Spec => []CountIsBacklog
<1>1. Spec => []IndexInv
  BY IndexInit, IndexStep, PTL DEF Spec
<1> QED
  BY <1>1, IndexImplies, PTL

(* The indices, slots and counters keep their types. *)
THEOREM RingTypeOK == Spec => []TypeOK
<1>1. IndexInv => TypeOK
  BY DEF IndexInv
<1> QED
  BY <1>1, IndexInit, IndexStep, PTL DEF Spec

(* put gives up only when Size - 2 values are waiting. *)
THEOREM RingDropsOnlyWhenFull == Spec => DropsOnlyWhenFull
<1>1. IndexInv => (PutBegin /\ drops' => puts - gets = Size - 2)
  BY RingAssumption DEF IndexInv, TypeOK, PutBegin, Count, NextIx, Slots
<1>2. Spec => []IndexInv
  BY IndexInit, IndexStep, PTL DEF Spec
<1> QED
  BY <1>1, <1>2, PTL DEF DropsOnlyWhenFull

-----------------------------------------------------------------------------
(* In program order the unread slots of the fresh ring, none, are right. *)
LEMMA ValueInit == RingInit => ValueInv
<1> SUFFICES ASSUME RingInit PROVE ValueInv
  OBVIOUS
<1>1. Count = 0
  BY RingAssumption DEF RingInit, Count
<1>2. \A i \in Slots : ~(1 <= Ahead(i) /\ Ahead(i) <= 0)
  BY RingAssumption DEF RingInit, Ahead, Slots
<1> QED
  BY <1>1, <1>2 DEF RingInit, ValueInv, GetsInOrder

(* In program order every step of put and of get keeps the unread slots. *)
LEMMA ValueStep ==
  ASSUME InOrder = TRUE
  PROVE  IndexInv /\ ValueInv /\ [RingNext]_vars => ValueInv'
<1> SUFFICES ASSUME IndexInv, ValueInv, [RingNext]_vars PROVE ValueInv'
  OBVIOUS
<1> USE RingAssumption DEF IndexInv, TypeOK, Slots
<1>0. {"slot", "index"} # {"index"} /\ {"slot", "index"} # {}
  OBVIOUS
<1>1. CASE PutBegin
  <2>1. UNCHANGED <<rx, wx, store, puts, gets, rtodo, got>>
    BY <1>1 DEF PutBegin
  <2>2. UNCHANGED Count /\ \A i \in Slots : Ahead(i)' = Ahead(i)
    BY <2>1 DEF Count, Ahead
  <2>3. ("slot" \in wtodo => "index" \in wtodo)' /\ (wtodo = {"index"} => store[wslot] = puts + 1)'
    BY <1>0, <1>1 DEF PutBegin, ValueInv
  <2> QED
    BY <2>1, <2>2, <2>3 DEF ValueInv, GetsInOrder
<1>2. CASE PutSlot
  <2>1. wslot = wx /\ "index" \in wtodo /\ wtodo' = {"index"}
    BY <1>2 DEF PutSlot, ValueInv
  <2>2. store' = [store EXCEPT ![wx] = puts + 1]
    BY <1>2, <2>1 DEF PutSlot
  <2>3. Count' = Count /\ \A i \in Slots : Ahead(i)' = Ahead(i)
    BY <1>2 DEF PutSlot, Count, Ahead
  <2>4. ~(Ahead(wx) <= Count)
    BY DEF Ahead, Count
  <2>5. (\A i \in Slots : 1 <= Ahead(i) /\ Ahead(i) <= Count => store[i] = gets + Ahead(i))'
    BY <1>2, <2>2, <2>3, <2>4 DEF PutSlot, ValueInv
  <2> QED
    BY <1>2, <2>1, <2>2, <2>5 DEF PutSlot, ValueInv, GetsInOrder
<1>3. CASE PutIndex
  <2>1. wtodo = {"index"} /\ wtodo' = {} /\ store[wx] = puts + 1 /\ NextIx(wx) # rx
    BY <1>3 DEF PutIndex, ValueInv
  <2>2. wx' = NextIx(wx) /\ UNCHANGED <<rx, store, gets>>
    BY <1>3, <2>1 DEF PutIndex
  <2>3. Count' = Count + 1 /\ Ahead(wx) = Count + 1
    BY <2>1, <2>2 DEF Count, Ahead, NextIx
  <2>4. \A i \in Slots : Ahead(i)' = Ahead(i) /\ (Ahead(i) = Count + 1 => i = wx)
    BY <2>2, <2>3 DEF Ahead
  <2>5. (\A i \in Slots : 1 <= Ahead(i) /\ Ahead(i) <= Count => store[i] = gets + Ahead(i))'
    <3> SUFFICES ASSUME NEW i \in Slots, 1 <= Ahead(i), Ahead(i) <= Count + 1
                 PROVE  store[i] = gets + Ahead(i)
      BY <2>2, <2>3, <2>4
    <3>1. CASE Ahead(i) = Count + 1
      BY <2>1, <2>4, <3>1
    <3>2. CASE Ahead(i) # Count + 1
      BY <3>2 DEF ValueInv, Ahead, Count
    <3> QED
      BY <3>1, <3>2
  <2> QED
    BY <1>3, <2>1, <2>5 DEF PutIndex, ValueInv, GetsInOrder
<1>4. CASE GetBegin
  <2>1. UNCHANGED <<rx, wx, store, puts, gets, wtodo, wslot>> /\ rtodo' = {"slot", "index"}
    BY <1>4 DEF GetBegin
  <2>2. UNCHANGED Count /\ \A i \in Slots : Ahead(i)' = Ahead(i)
    BY <2>1 DEF Count, Ahead
  <2> QED
    BY <1>0, <2>1, <2>2 DEF ValueInv, GetsInOrder
<1>5. CASE GetSlot
  <2>1. rslot = NextIx(rx) /\ NextIx(rx) # wx /\ rtodo' = {"index"} /\ got' = store[rslot]
    BY <1>5 DEF GetSlot, ValueInv
  <2>2. NextIx(rx) \in Slots /\ Ahead(NextIx(rx)) = 1 /\ 1 <= Count
    BY <2>1 DEF NextIx, Ahead, Count
  <2>3. got' = gets + 1
    BY <2>1, <2>2 DEF ValueInv
  <2> QED
    BY <1>5, <2>1, <2>3 DEF GetSlot, ValueInv, GetsInOrder, Count, Ahead
<1>6. CASE GetIndex
  <2>1. rtodo = {"index"} /\ rtodo' = {} /\ got = gets + 1 /\ NextIx(rx) # wx
    BY <1>6 DEF GetIndex, ValueInv, GetsInOrder
  <2>2. rx' = NextIx(rx) /\ gets' = gets + 1 /\ UNCHANGED <<wx, store, puts, got, wtodo, wslot>>
    BY <1>6, <2>1 DEF GetIndex
  <2>3. Count' = Count - 1
    BY <2>1, <2>2 DEF Count, NextIx
  <2>4. \A i \in Slots : 1 <= Ahead(i)' => Ahead(i) = Ahead(i)' + 1 \/ Ahead(i)' = Size - 1
    BY <2>2 DEF Ahead, NextIx
  <2>5. Count <= Size - 2
    BY DEF Count
  <2>6. (\A i \in Slots : 1 <= Ahead(i) /\ Ahead(i) <= Count => store[i] = gets + Ahead(i))'
    <3> SUFFICES ASSUME NEW i \in Slots, 1 <= Ahead(i)', Ahead(i)' <= Count - 1
                 PROVE  store[i] = gets + 1 + Ahead(i)'
      BY <2>2, <2>3
    <3>1. Ahead(i) = Ahead(i)' + 1
      BY <2>4, <2>5 DEF Count
    <3>2. 1 <= Ahead(i) /\ Ahead(i) <= Count /\ Ahead(i)' \in Int
      BY <2>2, <3>1 DEF Count, Ahead, NextIx
    <3> QED
      BY <3>1, <3>2 DEF ValueInv
  <2> QED
    BY <1>6, <2>1, <2>2, <2>6 DEF GetIndex, ValueInv, GetsInOrder
<1>7. CASE UNCHANGED vars
  BY <1>7 DEF vars, ValueInv, GetsInOrder, Count, Ahead
<1> QED
  BY <1>1, <1>2, <1>3, <1>4, <1>5, <1>6, <1>7 DEF RingNext

(* With the slot access and the index store in program order, get returns  *)
(* the values in the order they were put, each once, for any ring size.    *)
THEOREM RingGetsInOrder ==
  ASSUME InOrder = TRUE
  PROVE  Spec => []GetsInOrder
<1>1. RingInit => IndexInv /\ ValueInv
  BY IndexInit, ValueInit
<1>2. (IndexInv /\ ValueInv) /\ [RingNext]_vars => (IndexInv /\ ValueInv)'
  BY IndexStep, ValueStep
<1>3. IndexInv /\ ValueInv => GetsInOrder
  BY DEF ValueInv
<1> QED
  BY <1>1, <1>2, <1>3, PTL DEF Spec
-----------------------------------------------------------------------------
(* High availability: what the partners know of each other *)

USE ZenonT(30)

Message == [event : {"UPDATE", "DELETE"}, key : Keys]

Upd(k) == [event |-> "UPDATE", key |-> k]

Del(k) == [event |-> "DELETE", key |-> k]

(* What is under way to n. *)
To(n) == IF n = "a" THEN back ELSE arrived \o wire

Partner(n) == IF n = "a" THEN "b" ELSE "a"

(* What is sent to n reaches it. *)
Heard(n) == n = "b" \/ ~shut

Has(x, s) == \E i \in 1 .. Len(s) : s[i] = x

(* Every deletion of k in s is followed by an update. *)
Behind(k, s) == \A i \in 1 .. Len(s) : s[i] = Del(k) => \E j \in i + 1 .. Len(s) : s[j] = Upd(k)

(* n has sent updates for k: none of its deletions will take the flow of m *)
(* away for good, and m has it, will have it or has removed it itself.     *)
Echo(n, m, k) ==
    told[n][k] => Behind(k, To(m)) /\ (Has(Upd(k), To(m)) \/ flow[m][k] # None \/ cut[m][k])

Owned(n, k) == Own(n, k) /\ told[n][k]

(* Of two that have updates sent, one is still to hear from the other. *)
Crossed(k) == (\A n \in Nodes : Owned(n, k)) => \E n \in Nodes : Has(Upd(k), To(n))

KeyInv(k) ==
    /\ \A n \in Nodes :
          /\ Heard(n) /\ told[n][k] => flow[n][k] # None
          /\ ~lost /\ Heard(Partner(n)) => Echo(n, Partner(n), k)
    /\ ~lost /\ ~shut => Crossed(k)

TableTypes ==
    /\ flow \in [Nodes -> [Keys -> (SUBSET Flags) \cup {None}]]
    /\ told \in [Nodes -> [Keys -> BOOLEAN]] /\ cut \in [Nodes -> [Keys -> BOOLEAN]]

HaTypes ==
    /\ TableTypes
    /\ wire \in Seq(Message) /\ arrived \in Seq(Message) /\ back \in Seq(Message)
    /\ lost \in BOOLEAN /\ shut \in BOOLEAN

(* arrived is what the ring holds, with the message that is being put. *)
Counted == Len(arrived) = puts - gets + IF "index" \in wtodo THEN 1 ELSE 0

(* The inductive invariant. *)
HaInv == IndexInv /\ ValueInv /\ HaTypes /\ Counted /\ \A k \in Keys : KeyInv(k)

(* What two sequences put together are. *)
LEMMA ConcatFacts ==
    ASSUME NEW S, NEW s \in Seq(S), NEW t \in Seq(S)
    PROVE  /\ s \o t \in Seq(S) /\ Len(s \o t) = Len(s) + Len(t) /\ Len(s) \in Nat /\ Len(t) \in Nat
           /\ \A i \in 1 .. Len(s) : (s \o t)[i] = s[i]
           /\ \A i \in 1 .. Len(t) : (s \o t)[Len(s) + i] = t[i]
  BY SMTT(20)

(* Sequences of the same elements are the same. *)
LEMMA SameSeq ==
    ASSUME NEW S, NEW s \in Seq(S), NEW t \in Seq(S), Len(s) = Len(t),
           \A i \in 1 .. Len(s) : s[i] = t[i]
    PROVE  s = t
  BY SMTT(20)

(* r is s with t behind it. *)
Joined(r, s, t) ==
    /\ Len(r) = Len(s) + Len(t)
    /\ \A i \in 1 .. Len(s) : r[i] = s[i]
    /\ \A i \in 1 .. Len(t) : r[Len(s) + i] = t[i]

(* What joins the same sequences in the same order is the same. *)
LEMMA SameElements ==
    ASSUME NEW S, NEW s \in Seq(S), NEW t \in Seq(S), NEW u \in Seq(S),
           NEW x \in Seq(S), NEW y \in Seq(S), NEW v \in Seq(S), NEW w \in Seq(S),
           Joined(x, s, t), Joined(y, t, u), Joined(v, s, y), Joined(w, x, u)
    PROVE  v = w
<1>1. Len(s) \in Nat /\ Len(t) \in Nat /\ Len(u) \in Nat /\ Len(v) = Len(w)
  BY SMTT(20) DEF Joined
<1>2. ASSUME NEW i \in 1 .. Len(v) PROVE v[i] = w[i]
  <2>1. CASE i <= Len(s)
    <3>1. i \in 1 .. Len(s) /\ i \in 1 .. Len(x)
      BY <1>1, <2>1, SMTT(20) DEF Joined
    <3> QED  BY <3>1 DEF Joined
  <2>2. CASE i > Len(s) /\ i <= Len(s) + Len(t)
    <3>1. PICK j \in 1 .. Len(t) : i = Len(s) + j
      <4>1. i - Len(s) \in 1 .. Len(t) /\ i = Len(s) + (i - Len(s))
        BY <1>1, <2>2, SMTT(20) DEF Joined
      <4> QED  BY <4>1
    <3>2. j \in 1 .. Len(y) /\ i \in 1 .. Len(x)
      BY <1>1, <2>2, <3>1, SMTT(20) DEF Joined
    <3>3. v[i] = t[j] /\ w[i] = t[j]
      BY <3>1, <3>2, SMTT(20) DEF Joined
    <3> QED  BY <3>3
  <2>3. CASE i > Len(s) + Len(t)
    <3>1. PICK j \in 1 .. Len(u) : i = Len(x) + j
      <4>1. i - Len(x) \in 1 .. Len(u) /\ i = Len(x) + (i - Len(x))
        BY <1>1, <2>3, SMTT(20) DEF Joined
      <4> QED  BY <4>1
    <3>2. Len(t) + j \in 1 .. Len(y) /\ i = Len(s) + (Len(t) + j)
      BY <1>1, <3>1, SMTT(20) DEF Joined
    <3>3. v[i] = u[j] /\ w[i] = u[j]
      BY <3>1, <3>2, SMTT(20) DEF Joined
    <3> QED  BY <3>3
  <2> QED  BY <1>1, <2>1, <2>2, <2>3, SMTT(20)
<1> QED  BY <1>1, <1>2, SameSeq

(* Putting sequences together is associative. *)
LEMMA ConcatTwice ==
    ASSUME NEW S, NEW s \in Seq(S), NEW t \in Seq(S), NEW u \in Seq(S)
    PROVE  s \o (t \o u) = (s \o t) \o u
<1> DEFINE x == s \o t
           y == t \o u
<1>1. x \in Seq(S) /\ Joined(x, s, t)
  BY SMTT(20) DEF Joined
<1>2. y \in Seq(S) /\ Joined(y, t, u)
  BY SMTT(20) DEF Joined
<1> HIDE DEF x, y
<1> DEFINE v == s \o y
           w == x \o u
<1>3. v \in Seq(S) /\ Joined(v, s, y)
  <2>1. y \in Seq(S)
    BY <1>2
  <2> QED  BY <2>1, SMTT(20) DEF Joined
<1>4. w \in Seq(S) /\ Joined(w, x, u)
  <2>1. x \in Seq(S)
    BY <1>1
  <2> QED  BY <2>1, SMTT(20) DEF Joined
<1> HIDE DEF v, w
<1>5. v = w
  BY <1>1, <1>2, <1>3, <1>4, SameElements
<1> QED  BY <1>5 DEF v, w, x, y

-----------------------------------------------------------------------------
(* Messages under way *)

(* The messages sent have their key and their events. *)
LEMMA Written ==
    ASSUME NEW k \in Keys, NEW evs \in Seq({"UPDATE", "DELETE"}), NEW m,
           m = [i \in DOMAIN evs |-> [event |-> evs[i], key |-> k]]
    PROVE  /\ m \in Seq(Message) /\ Len(m) = Len(evs) /\ Len(evs) \in Nat
           /\ \A i \in 1 .. Len(m) : m[i] = [event |-> evs[i], key |-> k]
<1>1. DOMAIN evs = 1 .. Len(evs) /\ Len(evs) \in Nat
  BY SMTT(20)
<1>2. \A i \in 1 .. Len(evs) : evs[i] \in {"UPDATE", "DELETE"}
  BY SMTT(20)
<1>3. \A i \in 1 .. Len(evs) : [event |-> evs[i], key |-> k] \in Message
  BY <1>2 DEF Message
<1>4. m \in [1 .. Len(evs) -> Message]
  BY <1>1, <1>3
<1>5. m \in Seq(Message) /\ Len(m) = Len(evs)
  BY <1>1, <1>4, SMTT(20)
<1> QED  BY <1>1, <1>5

(* An update and a deletion differ, and so do those of different keys. *)
LEMMA Distinct ==
    ASSUME NEW j, NEW k
    PROVE  /\ Upd(j) # Del(k) /\ Upd(k).event = "UPDATE" /\ Upd(k).key = k
           /\ Del(k).event = "DELETE" /\ Del(k).key = k
  BY DEF Upd, Del

(* What sending messages about k does to what is under way. *)
LEMMA Appended ==
    ASSUME NEW k \in Keys, NEW s \in Seq(Message), NEW m \in Seq(Message),
           \A i \in 1 .. Len(m) : m[i].key = k, NEW t, t = s \o m
    PROVE  /\ \A x : Has(x, s) => Has(x, t)
           /\ \A j \in Keys \ {k} : Behind(j, s) => Behind(j, t)
           /\ m # <<>> /\ m[Len(m)] = Upd(k) => Has(Upd(k), t) /\ Behind(k, t)
<1>1. /\ Len(t) = Len(s) + Len(m) /\ Len(s) \in Nat /\ Len(m) \in Nat
      /\ \A i \in 1 .. Len(s) : t[i] = s[i]
      /\ \A i \in 1 .. Len(m) : t[Len(s) + i] = m[i]
  BY ConcatFacts, SMTT(20)
<1>2. \A i \in 1 .. Len(s) : i \in 1 .. Len(t)
  BY <1>1, SMTT(20)
<1>3. ASSUME NEW x, Has(x, s) PROVE Has(x, t)
  BY <1>1, <1>2, <1>3 DEF Has
<1>4. ASSUME NEW i \in 1 .. Len(t), i \notin 1 .. Len(s)
      PROVE  t[i].key = k
  <2>1. i - Len(s) \in 1 .. Len(m) /\ i = Len(s) + (i - Len(s))
    BY <1>1, <1>4, SMTT(20)
  <2>2. t[i] = m[i - Len(s)]
    BY <1>1, <2>1
  <2> QED  BY <2>1, <2>2
<1>5. ASSUME NEW j \in Keys \ {k}, Behind(j, s) PROVE Behind(j, t)
  <2> SUFFICES ASSUME NEW i \in 1 .. Len(t), t[i] = Del(j)
               PROVE  \E l \in i + 1 .. Len(t) : t[l] = Upd(j)
    BY DEF Behind
  <2>1. i \in 1 .. Len(s)
    <3>1. Del(j).key = j /\ j # k
      BY Distinct
    <3> QED  BY <1>4, <3>1
  <2>2. PICK l \in i + 1 .. Len(s) : s[l] = Upd(j)
    BY <1>1, <1>5, <2>1 DEF Behind
  <2>3. l \in 1 .. Len(s) /\ l \in i + 1 .. Len(t)
    BY <1>1, <2>1, <2>2, SMTT(20)
  <2> QED  BY <1>1, <2>2, <2>3
<1>6. ASSUME m # <<>>, m[Len(m)] = Upd(k) PROVE Has(Upd(k), t) /\ Behind(k, t)
  <2>1. Len(m) \in 1 .. Len(m)
    BY <1>6, SMTT(20)
  <2>2. t[Len(t)] = Upd(k) /\ Len(t) \in 1 .. Len(t)
    <3>1. Len(t) \in 1 .. Len(t)
      BY <1>1, <2>1, SMTT(20)
    <3> QED  BY <1>1, <1>6, <2>1, <3>1
  <2>3. ASSUME NEW i \in 1 .. Len(t), t[i] = Del(k) PROVE Len(t) \in i + 1 .. Len(t)
    <3>1. i # Len(t)
      BY <2>2, <2>3, Distinct, SMTT(20)
    <3> QED  BY <1>1, <3>1, SMTT(20)
  <2> QED  BY <2>2, <2>3 DEF Has, Behind
<1> QED  BY <1>3, <1>5, <1>6

(* The rest of a sequence. *)
LEMMA TailFacts ==
    ASSUME NEW S, NEW s \in Seq(S), s # <<>>
    PROVE  /\ Tail(s) \in Seq(S) /\ Len(Tail(s)) = Len(s) - 1 /\ Len(s) \in Nat /\ Len(s) >= 1
           /\ \A i \in 1 .. Len(s) - 1 : Tail(s)[i] = s[i + 1]
           /\ Head(s) = s[1] /\ Head(s) \in S
  BY SMTT(20)

(* What handling the first message does to what is under way. *)
LEMMA Handled ==
    ASSUME NEW s \in Seq(Message), s # <<>>, NEW t, t = Tail(s), NEW k \in Keys
    PROVE  /\ Behind(k, s) => Behind(k, t)
           /\ Has(Upd(k), s) => Has(Upd(k), t) \/ Head(s) = Upd(k)
           /\ Behind(k, s) /\ Head(s) = Del(k) => Has(Upd(k), t)
<1>1. /\ Len(t) = Len(s) - 1 /\ Len(s) \in Nat /\ Len(s) >= 1 /\ Head(s) = s[1]
      /\ \A i \in 1 .. Len(s) - 1 : t[i] = s[i + 1]
  BY TailFacts
<1>2. ASSUME NEW i \in 1 .. Len(s), i # 1
      PROVE  i - 1 \in 1 .. Len(s) - 1 /\ i - 1 \in 1 .. Len(t) /\ (i - 1) + 1 = i
  BY <1>1, <1>2, SMTT(20)
<1>3. ASSUME NEW i \in 1 .. Len(s), i # 1 PROVE t[i - 1] = s[i]
  BY <1>1, <1>2, <1>3
<1>4. ASSUME Behind(k, s) PROVE Behind(k, t)
  <2> SUFFICES ASSUME NEW i \in 1 .. Len(t), t[i] = Del(k)
               PROVE  \E l \in i + 1 .. Len(t) : t[l] = Upd(k)
    BY DEF Behind
  <2>1. i + 1 \in 1 .. Len(s) /\ i \in 1 .. Len(s) - 1
    BY <1>1, SMTT(20)
  <2>2. s[i + 1] = Del(k)
    BY <1>1, <2>1
  <2>3. PICK l \in (i + 1) + 1 .. Len(s) : s[l] = Upd(k)
    BY <1>4, <2>1, <2>2 DEF Behind
  <2>4. l \in 1 .. Len(s) /\ l # 1 /\ l - 1 \in i + 1 .. Len(t)
    BY <1>1, <2>1, <2>3, SMTT(20)
  <2> QED  BY <1>3, <2>3, <2>4
<1>5. ASSUME Has(Upd(k), s) PROVE Has(Upd(k), t) \/ Head(s) = Upd(k)
  BY <1>1, <1>2, <1>3, <1>5 DEF Has
<1>6. ASSUME Behind(k, s), Head(s) = Del(k) PROVE Has(Upd(k), t)
  <2>1. 1 \in 1 .. Len(s)
    BY <1>1, SMTT(20)
  <2>2. PICK l \in 1 + 1 .. Len(s) : s[l] = Upd(k)
    BY <1>1, <1>6, <2>1 DEF Behind
  <2>3. l \in 1 .. Len(s) /\ l # 1
    BY <1>1, <2>2, SMTT(20)
  <2> QED  BY <1>2, <1>3, <2>2, <2>3 DEF Has
<1> QED  BY <1>4, <1>5, <1>6

(* A message that the receive thread moves on stays where it is in line. *)
LEMMA MovedOn ==
    ASSUME NEW S, NEW s \in Seq(S), NEW t \in Seq(S), t # <<>>
    PROVE  Append(s, Head(t)) \in Seq(S) /\ Append(s, Head(t)) \o Tail(t) = s \o t
<1>1. Head(t) \in S /\ Tail(t) \in Seq(S) /\ <<Head(t)>> \in Seq(S)
  BY SMTT(20)
<1>2. Append(s, Head(t)) = s \o <<Head(t)>> /\ Append(s, Head(t)) \in Seq(S)
  BY <1>1, SMTT(20)
<1>3. t = <<Head(t)>> \o Tail(t)
  BY SMTT(20)
<1>4. s \o (<<Head(t)>> \o Tail(t)) = (s \o <<Head(t)>>) \o Tail(t)
  BY <1>1, ConcatTwice, SMTT(20)
<1> QED  BY <1>2, <1>3, <1>4

(* Taking the first of the messages that arrived takes the first in line. *)
LEMMA TakenFirst ==
    ASSUME NEW S, NEW s \in Seq(S), NEW t \in Seq(S), s # <<>>
    PROVE  /\ RemoveAt(s, 1) = Tail(s) /\ s \o t # <<>> /\ Head(s \o t) = s[1]
           /\ RemoveAt(s, 1) \o t = Tail(s \o t)
<1>1. Tail(s) \in Seq(S) /\ s[1] \in S /\ <<s[1]>> \in Seq(S) /\ Len(s) >= 1
  BY SMTT(20)
<1>2. RemoveAt(s, 1) = Tail(s)
  BY <1>1, SMTT(20) DEF RemoveAt
<1>3. s = <<s[1]>> \o Tail(s)
  BY SMTT(20)
<1>4. s \o t = <<s[1]>> \o (Tail(s) \o t)
  BY <1>1, <1>3, ConcatTwice, SMTT(20)
<1>5. Tail(s) \o t \in Seq(S)
  BY <1>1, ConcatFacts
<1>6. ASSUME NEW u \in Seq(S)
      PROVE  <<s[1]>> \o u # <<>> /\ Head(<<s[1]>> \o u) = s[1] /\ Tail(<<s[1]>> \o u) = u
  BY <1>1, SMTT(20)
<1> QED  BY <1>2, <1>4, <1>5, <1>6

-----------------------------------------------------------------------------
(* What one node does for one key *)

EndsInUpdate(evs) == evs # <<>> /\ evs[Len(evs)] = "UPDATE"

(* t tells of every key but k what s told. *)
Passes(s, t, k) ==
    \A j \in Keys \ {k} : (Has(Upd(j), s) => Has(Upd(j), t)) /\ (Behind(j, s) => Behind(j, t))

(* What n sends about k is under way to m. *)
Out(m, k, evs) ==
    Heard(m) => /\ Passes(To(m), To(m)', k)
                /\ evs = <<>> => To(m)' = To(m)
                /\ EndsInUpdate(evs) => Has(Upd(k), To(m)') /\ Behind(k, To(m)')

(* Transmit of messages about k. *)
LEMMA Transmitted ==
    ASSUME HaTypes, NEW n \in Nodes, NEW k \in Keys, NEW evs \in Seq({"UPDATE", "DELETE"}),
           Transmit(n, k, evs), n = "a" => UNCHANGED arrived
    PROVE  /\ Out(Partner(n), k, evs)
           /\ IF n = "a" THEN wire' \in Seq(Message) ELSE back' \in Seq(Message)
<1> DEFINE m == [i \in DOMAIN evs |-> [event |-> evs[i], key |-> k]]
<1>1. /\ m \in Seq(Message) /\ Len(m) = Len(evs) /\ Len(evs) \in Nat
      /\ \A i \in 1 .. Len(m) : m[i] = [event |-> evs[i], key |-> k]
  BY Written
<1>2. IF n = "a" THEN wire' = wire \o m ELSE back' = IF shut THEN back ELSE back \o m
  BY DEF Transmit
<1> HIDE DEF m
<1>3. \A i \in 1 .. Len(m) : m[i].key = k
  <2>1. \A e : [event |-> e, key |-> k].key = k
    BY SMTT(20)
  <2> QED  BY <1>1, <2>1
<1>4. EndsInUpdate(evs) => m # <<>> /\ m[Len(m)] = Upd(k)
  <2>1. ASSUME evs # <<>> PROVE Len(evs) \in 1 .. Len(evs) /\ m # <<>>
    BY <1>1, <2>1, SMTT(20)
  <2> QED  BY <1>1, <2>1 DEF EndsInUpdate, Upd
<1>5. evs = <<>> => m = <<>>
  BY <1>1, SMTT(20)
<1>6. ASSUME NEW s \in Seq(Message), NEW t, t = s \o m
      PROVE  /\ Passes(s, t, k) /\ t \in Seq(Message)
             /\ evs = <<>> => t = s
             /\ EndsInUpdate(evs) => Has(Upd(k), t) /\ Behind(k, t)
  <2>1. t \in Seq(Message)
    BY <1>1, <1>6, ConcatFacts
  <2>2. evs = <<>> => t = s
    BY <1>5, <1>6, SMTT(20)
  <2>3. /\ \A x : Has(x, s) => Has(x, t)
        /\ \A j \in Keys \ {k} : Behind(j, s) => Behind(j, t)
        /\ m # <<>> /\ m[Len(m)] = Upd(k) => Has(Upd(k), t) /\ Behind(k, t)
    BY <1>1, <1>3, <1>6, Appended
  <2> QED  BY <1>4, <2>1, <2>2, <2>3 DEF Passes
<1>7. wire \in Seq(Message) /\ arrived \in Seq(Message) /\ back \in Seq(Message)
  BY DEF HaTypes
<1>8. CASE n = "a"
  <2>1. wire' = wire \o m /\ arrived' = arrived /\ wire' \in Seq(Message)
    BY <1>2, <1>6, <1>7, <1>8
  <2>2. To("b")' = To("b") \o m
    BY <1>1, <1>7, <2>1, ConcatTwice, SMTT(20) DEF To
  <2>3. To("b") \in Seq(Message)
    BY <1>7, ConcatFacts DEF To
  <2>4. Partner(n) = "b"
    BY <1>8 DEF Partner
  <2> QED  BY <1>6, <1>8, <2>1, <2>2, <2>3, <2>4 DEF Out
<1>9. CASE n = "b"
  <2>1. Partner(n) = "a" /\ n # "a" /\ To("a") = back /\ To("a")' = back'
    BY <1>9 DEF Partner, To
  <2>2. Heard("a") => back' = back \o m
    BY <1>2, <2>1 DEF Heard
  <2>3. back' \in Seq(Message)
    BY <1>2, <1>6, <1>7, <2>1
  <2> QED  BY <1>6, <1>7, <2>1, <2>2, <2>3 DEF Out
<1> QED  BY <1>8, <1>9 DEF Nodes

(* A node has one partner. *)
LEMMA Two ==
    ASSUME NEW n \in Nodes
    PROVE  /\ Partner(n) \in Nodes /\ Partner(n) # n /\ Partner(Partner(n)) = n
           /\ \A i \in Nodes : i = n \/ i = Partner(n)
  BY DEF Nodes, Partner

(* One entry of a table of the nodes is changed. *)
LEMMA OneEntry ==
    ASSUME NEW V, NEW f \in [Nodes -> [Keys -> V]], NEW n \in Nodes, NEW k \in Keys, NEW v \in V,
           NEW g, g = [f EXCEPT ![n][k] = v]
    PROVE  /\ g \in [Nodes -> [Keys -> V]] /\ g[n][k] = v
           /\ \A i \in Nodes, j \in Keys : i # n \/ j # k => g[i][j] = f[i][j]
  BY SMTT(20)

(* Node n, which hears its partner, has its entries for k set to v, u and  *)
(* c, sends evs about k and has taken something from what is under way to  *)
(* it: when k comes out right, everything does.                            *)
LEMMA NodeStep ==
    ASSUME HaTypes, \A j \in Keys : KeyInv(j), NEW n \in Nodes, NEW k \in Keys, Heard(n),
           UNCHANGED <<shut, lost>>, NEW evs, Out(Partner(n), k, evs),
           NEW v \in (SUBSET Flags) \cup {None}, NEW u \in BOOLEAN, NEW c \in BOOLEAN,
           flow' = [flow EXCEPT ![n][k] = v], told' = [told EXCEPT ![n][k] = u],
           cut' = [cut EXCEPT ![n][k] = c],
           Passes(To(n), To(n)', k),
           Behind(k, To(n)) /\ (Has(Upd(k), To(n)) \/ flow[n][k] # None \/ cut[n][k])
              => Behind(k, To(n)') /\ (Has(Upd(k), To(n)') \/ v # None \/ c),
           u => v # None,
           u => EndsInUpdate(evs) \/ (evs = <<>> /\ told[n][k]),
           u /\ v # None /\ "STANDBY" \notin v
              => EndsInUpdate(evs) \/ (evs = <<>> /\ Owned(n, k) /\ To(n)' = To(n))
    PROVE  TableTypes' /\ \A j \in Keys : KeyInv(j)'
<1> DEFINE m == Partner(n)
<1>1. m \in Nodes /\ m # n /\ Partner(m) = n /\ \A i \in Nodes : i = n \/ i = m
  BY Two
<1>2. /\ flow'[n][k] = v /\ flow' \in [Nodes -> [Keys -> (SUBSET Flags) \cup {None}]]
      /\ \A i \in Nodes, j \in Keys : i # n \/ j # k => flow'[i][j] = flow[i][j]
  BY OneEntry, SMTT(20) DEF HaTypes, TableTypes
<1>3. /\ told'[n][k] = u /\ told' \in [Nodes -> [Keys -> BOOLEAN]]
      /\ \A i \in Nodes, j \in Keys : i # n \/ j # k => told'[i][j] = told[i][j]
  BY OneEntry, SMTT(20) DEF HaTypes, TableTypes
<1>4. /\ cut'[n][k] = c /\ cut' \in [Nodes -> [Keys -> BOOLEAN]]
      /\ \A i \in Nodes, j \in Keys : i # n \/ j # k => cut'[i][j] = cut[i][j]
  BY OneEntry, SMTT(20) DEF HaTypes, TableTypes
<1>5. \A i \in Nodes : Heard(i)' = Heard(i)
  BY DEF Heard
<1>6. Partner(n) = m
  OBVIOUS
<1> HIDE DEF m
<1>7. Out(m, k, evs)
  BY <1>6
<1>8. ASSUME NEW j \in Keys, j # k PROVE KeyInv(j)'
  <2>1. \A i \in Nodes : /\ flow'[i][j] = flow[i][j] /\ told'[i][j] = told[i][j]
                         /\ cut'[i][j] = cut[i][j]
    BY <1>2, <1>3, <1>4, <1>8
  <2>2. \A i \in Nodes : Heard(i) => /\ Has(Upd(j), To(i)) => Has(Upd(j), To(i)')
                                     /\ Behind(j, To(i)) => Behind(j, To(i)')
    BY <1>1, <1>7, <1>8 DEF Passes, Out
  <2>3. KeyInv(j)
    OBVIOUS
  <2>4. ASSUME NEW i \in Nodes
        PROVE  /\ Heard(i)' /\ told'[i][j] => flow'[i][j] # None
               /\ ~lost' /\ Heard(Partner(i))' => Echo(i, Partner(i), j)'
    <3>1. Partner(i) \in Nodes
      BY Two
    <3>2. Heard(i)' /\ told'[i][j] => flow'[i][j] # None
      BY <1>5, <2>1, <2>3 DEF KeyInv
    <3>3. ASSUME ~lost', Heard(Partner(i))' PROVE Echo(i, Partner(i), j)'
      <4>1. Echo(i, Partner(i), j) /\ Heard(Partner(i))
        BY <1>5, <2>3, <3>1, <3>3 DEF KeyInv
      <4> QED  BY <2>1, <2>2, <3>1, <4>1 DEF Echo
    <3> QED  BY <3>2, <3>3
  <2>5. ~lost' /\ ~shut' => Crossed(j)'
    <3> SUFFICES ASSUME ~lost, ~shut, \A i \in Nodes : Owned(i, j)'
                 PROVE  \E i \in Nodes : Has(Upd(j), To(i)')
      BY DEF Crossed
    <3>1. \A i \in Nodes : Owned(i, j) /\ Heard(i)
      BY <2>1 DEF Owned, Own, Heard
    <3>2. \E i \in Nodes : Has(Upd(j), To(i))
      BY <2>3, <3>1 DEF KeyInv, Crossed
    <3> QED  BY <2>2, <3>1, <3>2
  <2> QED  BY <2>4, <2>5 DEF KeyInv
<1>9. KeyInv(k)'
  <2>1. flow'[m][k] = flow[m][k] /\ told'[m][k] = told[m][k] /\ cut'[m][k] = cut[m][k]
    BY <1>1, <1>2, <1>3, <1>4
  <2>2. KeyInv(k)
    OBVIOUS
  <2>3. /\ Heard(m) /\ told[m][k] => flow[m][k] # None
        /\ ~lost => Echo(m, n, k)
        /\ ~lost /\ Heard(m) => Echo(n, m, k)
    BY <1>1, <1>6, <2>2 DEF KeyInv
  <2>4. Heard(n)' /\ told'[n][k] => flow'[n][k] # None
    BY <1>2, <1>3
  <2>5. Heard(m)' /\ told'[m][k] => flow'[m][k] # None
    BY <1>1, <1>5, <2>1, <2>3
  <2>6. ~lost' => Echo(m, n, k)'
    BY <1>2, <1>4, <2>1, <2>3 DEF Echo
  <2>7. ~lost' /\ Heard(m)' => Echo(n, m, k)'
    <3> SUFFICES ASSUME ~lost, Heard(m), u
                 PROVE  /\ Behind(k, To(m)')
                        /\ Has(Upd(k), To(m)') \/ flow'[m][k] # None \/ cut'[m][k]
      BY <1>1, <1>3, <1>5 DEF Echo
    <3>1. CASE EndsInUpdate(evs)
      BY <1>7, <3>1 DEF Out
    <3>2. CASE evs = <<>> /\ told[n][k]
      <4>1. To(m)' = To(m)
        BY <1>7, <3>2 DEF Out
      <4> QED  BY <2>1, <2>3, <3>2, <4>1 DEF Echo
    <3> QED  BY <3>1, <3>2
  <2>8. ~lost' /\ ~shut' => Crossed(k)'
    <3> SUFFICES ASSUME ~lost, ~shut, \A i \in Nodes : Owned(i, k)'
                 PROVE  \E i \in Nodes : Has(Upd(k), To(i)')
      BY DEF Crossed
    <3>1. Heard(m) /\ u /\ v # None /\ "STANDBY" \notin v /\ Owned(m, k)
      BY <1>1, <1>2, <1>3, <2>1 DEF Heard, Owned, Own
    <3>2. CASE EndsInUpdate(evs)
      BY <1>1, <1>7, <3>1, <3>2 DEF Out
    <3>3. CASE evs = <<>> /\ Owned(n, k) /\ To(n)' = To(n)
      <4>1. To(m)' = To(m)
        BY <1>7, <3>1, <3>3 DEF Out
      <4>2. \E i \in Nodes : Has(Upd(k), To(i))
        BY <1>1, <2>2, <3>1, <3>3 DEF KeyInv, Crossed
      <4> QED  BY <1>1, <3>3, <4>1, <4>2
    <3> QED  BY <3>1, <3>2, <3>3
  <2> QED
    <3>1. ASSUME NEW i \in Nodes
          PROVE  /\ Heard(i)' /\ told'[i][k] => flow'[i][k] # None
                 /\ ~lost' /\ Heard(Partner(i))' => Echo(i, Partner(i), k)'
      BY <1>1, <1>6, <2>4, <2>5, <2>6, <2>7
    <3> QED  BY <2>8, <3>1 DEF KeyInv
<1> QED  BY <1>2, <1>3, <1>4, <1>8, <1>9 DEF TableTypes

-----------------------------------------------------------------------------
(* The actions *)

(* The states of a flow that is found or made. *)
LEMMA FoundType ==
    ASSUME HaTypes, NEW n \in Nodes, NEW k \in Keys
    PROVE  /\ flow[n][k] \in (SUBSET Flags) \cup {None} /\ told[n][k] \in BOOLEAN
           /\ cut[n][k] \in BOOLEAN /\ Found(n, k) \in SUBSET Flags
           /\ flow[n][k] # None => Found(n, k) = flow[n][k]
<1>1. /\ flow[n][k] \in (SUBSET Flags) \cup {None} /\ told[n][k] \in BOOLEAN
      /\ cut[n][k] \in BOOLEAN
  BY DEF HaTypes, TableTypes
<1>2. {} \in SUBSET Flags /\ {"NEW", "NEW_SESSION"} \in SUBSET Flags
  BY DEF Flags
<1> QED  BY <1>1, <1>2 DEF Found

(* The states that process_deletion and is_update_required leave. *)
LEMMA UpdateType ==
    ASSUME NEW k, NEW f \in SUBSET Flags, NEW change \in Changes(k)
    PROVE  AfterDeletion(f) \in SUBSET Flags /\ UpdateFlags(k, f, change) \in SUBSET Flags
<1>1. change \in SUBSET Flags
  BY SMTT(20) DEF Changes, Flags
<1>2. /\ "MODIFIED" \in Flags /\ "MAJOR" \in Flags /\ "DELETED" \in Flags
  BY DEF Flags
<1>3. AfterDeletion(f) \in SUBSET Flags
  BY <1>2 DEF AfterDeletion
<1>4. ASSUME NEW g \in SUBSET Flags
      PROVE  (g \ {"STANDBY"}) \cup {"MODIFIED", "MAJOR"} \in SUBSET Flags
  BY <1>2
<1>5. /\ (f \ {"NEW_SESSION"}) \cup {"MODIFIED"} \cup {} \in SUBSET Flags
      /\ (f \ {"NEW_SESSION"}) \cup {"MODIFIED"} \cup {"MAJOR"} \in SUBSET Flags
      /\ f \cup change \in SUBSET Flags
  BY <1>1, <1>2
<1> QED  BY <1>3, <1>4, <1>5 DEF UpdateFlags

(* What a packet sends: a deletion, an update, both or nothing. *)
LEMMA Sending ==
    ASSUME NEW dels \in {<<>>, <<"DELETE">>}, NEW last \in {<<>>, <<"DELETE">>, <<"UPDATE">>}
    PROVE  /\ dels \o last \in Seq({"UPDATE", "DELETE"})
           /\ last = <<"UPDATE">> => EndsInUpdate(dels \o last)
           /\ dels = <<>> /\ last = <<>> => dels \o last = <<>>
<1>1. CASE dels = <<>>
  <2>1. last \in Seq({"UPDATE", "DELETE"})
    <3>1. <<>> \in Seq({"UPDATE", "DELETE"})
      BY SMTT(20)
    <3>2. <<"DELETE">> \in Seq({"UPDATE", "DELETE"})
      BY SMTT(20)
    <3>3. <<"UPDATE">> \in Seq({"UPDATE", "DELETE"})
      BY SMTT(20)
    <3> QED  BY <3>1, <3>2, <3>3
  <2>2. dels \o last = last
    BY <1>1, <2>1, SMTT(20)
  <2>3. last = <<"UPDATE">> => last # <<>> /\ last[Len(last)] = "UPDATE"
    BY SMTT(20)
  <2> QED  BY <2>1, <2>2, <2>3 DEF EndsInUpdate
<1>2. CASE dels = <<"DELETE">>
  <2>1. CASE last = <<>>
    BY <1>2, <2>1, SMTT(20)
  <2>2. CASE last = <<"DELETE">>
    BY <1>2, <2>2, SMTT(20)
  <2>3. CASE last = <<"UPDATE">>
    <3>1. dels \in Seq({"UPDATE", "DELETE"}) /\ Len(dels) = 1
      BY <1>2, SMTT(20)
    <3>2. last \in Seq({"UPDATE", "DELETE"}) /\ Len(last) = 1 /\ last[1] = "UPDATE"
      BY <2>3, SMTT(20)
    <3>3. /\ dels \o last \in Seq({"UPDATE", "DELETE"}) /\ Len(dels \o last) = 2
          /\ (dels \o last)[2] = "UPDATE"
      <4>1. /\ dels \o last \in Seq({"UPDATE", "DELETE"})
            /\ Len(dels \o last) = Len(dels) + Len(last)
            /\ \A i \in 1 .. Len(last) : (dels \o last)[Len(dels) + i] = last[i]
        BY <3>1, <3>2, ConcatFacts, SMTT(20)
      <4>2. 1 \in 1 .. Len(last) /\ Len(dels) + 1 = 2 /\ Len(dels) + Len(last) = 2
        BY <3>1, <3>2, SMTT(20)
      <4> QED  BY <3>2, <4>1, <4>2
    <3>4. dels \o last # <<>>
      BY <3>3, SMTT(20)
    <3>5. last # <<>>
      BY <2>3, SMTT(20)
    <3> QED  BY <3>3, <3>4, <3>5 DEF EndsInUpdate
  <2> QED  BY <2>1, <2>2, <2>3
<1> QED  BY <1>1, <1>2

(* process_deletion sends a deletion or nothing. *)
LEMMA DeletionType ==
    ASSUME NEW k, NEW f, NEW clean
    PROVE  Deletion(f) \in {<<>>, <<"DELETE">>} /\ Parting(k, f, clean) \in {<<>>, <<"DELETE">>}
  BY DEF Deletion, Parting

(* A node that receives nothing has the same under way to it. *)
LEMMA NothingTaken ==
    ASSUME NEW n \in Nodes, NothingReceived(n), UNCHANGED arrived
    PROVE  To(n)' = To(n) /\ \A k : Passes(To(n), To(n)', k)
<1>1. To(n)' = To(n)
  BY DEF Nodes, NothingReceived, To
<1> QED  BY <1>1 DEF Passes

(* What holds of a packet thread's step at its node. *)
LEMMA RunningHeard ==
    ASSUME NEW n \in Nodes, Running(n)
    PROVE  Heard(n)
  BY DEF Nodes, Running, Heard

(* Packet keeps the tables right. *)
LEMMA PacketKeeps ==
    ASSUME HaTypes, \A j \in Keys : KeyInv(j), NEW n \in Nodes, NEW k \in Keys, Packet(n, k)
    PROVE  HaTypes' /\ \A j \in Keys : KeyInv(j)'
<1>1. PICK del \in BOOLEAN, elapsed \in BOOLEAN, change \in Changes(k) :
           LET f == Found(n, k)
               g == UpdateFlags(k, IF del THEN AfterDeletion(f) ELSE f, change)
               update == UpdateRequired(g, elapsed)
               dels == IF del THEN Deletion(f) ELSE <<>>
           IN  /\ flow' = [flow EXCEPT ![n][k] =
                              IF update THEN g \ {"NEW", "MODIFIED", "MAJOR", "CRITICAL"} ELSE g]
               /\ Transmit(n, k, dels \o (IF update THEN <<"UPDATE">> ELSE <<>>))
               /\ told' = [told EXCEPT ![n][k] =
                              update \/ (@ /\ dels = <<>> /\ "STANDBY" \notin f)]
  BY DEF Packet
<1> DEFINE f == Found(n, k)
           g == UpdateFlags(k, IF del THEN AfterDeletion(f) ELSE f, change)
           update == UpdateRequired(g, elapsed)
           dels == IF del THEN Deletion(f) ELSE <<>>
           last == IF update THEN <<"UPDATE">> ELSE <<>>
           evs == dels \o last
           v == IF update THEN g \ {"NEW", "MODIFIED", "MAJOR", "CRITICAL"} ELSE g
           u == update \/ (told[n][k] /\ dels = <<>> /\ "STANDBY" \notin f)
<1>2. flow' = [flow EXCEPT ![n][k] = v] /\ Transmit(n, k, evs)
  BY <1>1
<1>3. told' = [told EXCEPT ![n][k] = u]
  BY <1>1
<1>4. UNCHANGED <<cut, shut, arrived, lost>> /\ NothingReceived(n) /\ Running(n)
  BY DEF Packet
<1>5. cut' = [cut EXCEPT ![n][k] = cut[n][k]]
  BY <1>4, SMTT(20) DEF HaTypes, TableTypes
<1>6. /\ f \in SUBSET Flags /\ (flow[n][k] # None => f = flow[n][k])
      /\ cut[n][k] \in BOOLEAN /\ told[n][k] \in BOOLEAN
  BY FoundType
<1>7. g \in SUBSET Flags
  BY <1>6, UpdateType
<1>8. v \in SUBSET Flags /\ v # None
  BY <1>7, HighAvailabilityAssumption
<1>9. /\ evs \in Seq({"UPDATE", "DELETE"}) /\ (update => EndsInUpdate(evs))
      /\ ~update /\ dels = <<>> => evs = <<>>
  <2>1. dels \in {<<>>, <<"DELETE">>}
    BY DeletionType
  <2>2. last \in {<<>>, <<"DELETE">>, <<"UPDATE">>} /\ (update => last = <<"UPDATE">>)
        /\ (~update => last = <<>>)
    OBVIOUS
  <2> HIDE DEF dels, last, update
  <2> QED  BY <2>1, <2>2, Sending
<1>10. u \in BOOLEAN
  BY <1>6 DEF UpdateRequired
<1>11. ASSUME u PROVE update \/ (~update /\ told[n][k] /\ dels = <<>> /\ "STANDBY" \notin f)
  BY <1>11
<1>12. Heard(n)
  BY <1>4, RunningHeard
<1> HIDE DEF f, g, update, dels, last, evs, v, u
<1>13. ASSUME u, ~update PROVE Owned(n, k)
  <2>1. told[n][k] /\ "STANDBY" \notin f
    BY <1>11, <1>13
  <2>2. flow[n][k] # None
    BY <1>12, <2>1 DEF KeyInv
  <2> QED  BY <1>6, <2>1, <2>2 DEF Owned, Own
<1>14. u => EndsInUpdate(evs) \/ (evs = <<>> /\ told[n][k] /\ Owned(n, k))
  BY <1>9, <1>11, <1>13
<1>15. /\ Out(Partner(n), k, evs)
       /\ IF n = "a" THEN wire' \in Seq(Message) ELSE back' \in Seq(Message)
  BY <1>2, <1>4, <1>9, Transmitted
<1>16. To(n)' = To(n) /\ Passes(To(n), To(n)', k)
  BY <1>4, NothingTaken
<1>17. TableTypes' /\ \A j \in Keys : KeyInv(j)'
  <2>1. UNCHANGED <<shut, lost>>
    BY <1>4
  <2>2. Behind(k, To(n)) /\ (Has(Upd(k), To(n)) \/ flow[n][k] # None \/ cut[n][k])
           => Behind(k, To(n)') /\ (Has(Upd(k), To(n)') \/ v # None \/ cut[n][k])
    BY <1>8, <1>16
  <2>3. /\ u => v # None
        /\ u => EndsInUpdate(evs) \/ (evs = <<>> /\ told[n][k])
        /\ u /\ v # None /\ "STANDBY" \notin v
              => EndsInUpdate(evs) \/ (evs = <<>> /\ Owned(n, k) /\ To(n)' = To(n))
    BY <1>8, <1>14, <1>16
  <2>4. v \in (SUBSET Flags) \cup {None} /\ cut[n][k] \in BOOLEAN
    BY <1>6, <1>8
  <2>5. flow' = [flow EXCEPT ![n][k] = v] /\ Out(Partner(n), k, evs) /\ Passes(To(n), To(n)', k)
    BY <1>2, <1>15, <1>16
  <2> QED  BY <1>3, <1>5, <1>10, <1>12, <2>1, <2>2, <2>3, <2>4, <2>5, NodeStep
<1> QED  BY <1>4, <1>15, <1>17 DEF HaTypes, NothingReceived

(* FlowCache::release keeps the tables right when the partner's updates    *)
(* are still to come or the removal is the node's own.                     *)
LEMMA ReleaseKeeps ==
    ASSUME HaTypes, \A j \in Keys : KeyInv(j), NEW n \in Nodes, NEW k \in Keys, Heard(n),
           UNCHANGED <<shut, lost>>, n = "a" => UNCHANGED arrived,
           NEW f, NEW evs \in {<<>>, <<"DELETE">>}, NEW clean, ReleaseFlow(n, k, f, evs, clean),
           NEW c \in BOOLEAN, cut' = [cut EXCEPT ![n][k] = c], Passes(To(n), To(n)', k),
           Behind(k, To(n)) => Behind(k, To(n)') /\ (Has(Upd(k), To(n)') \/ c)
    PROVE  /\ TableTypes' /\ \A j \in Keys : KeyInv(j)'
           /\ IF n = "a" THEN wire' \in Seq(Message) ELSE back' \in Seq(Message)
<1> DEFINE last == Parting(k, f, clean)
           e == evs \o last
<1>1. /\ flow' = [flow EXCEPT ![n][k] = None] /\ told' = [told EXCEPT ![n][k] = FALSE]
      /\ Transmit(n, k, e)
  BY DEF ReleaseFlow
<1>2. last \in {<<>>, <<"DELETE">>}
  BY DeletionType
<1> HIDE DEF last
<1>3. e \in Seq({"UPDATE", "DELETE"})
  BY <1>2, Sending
<1> HIDE DEF e
<1>4. /\ Out(Partner(n), k, e)
      /\ IF n = "a" THEN wire' \in Seq(Message) ELSE back' \in Seq(Message)
  BY <1>1, <1>3, Transmitted
<1>5. None \in (SUBSET Flags) \cup {None} /\ FALSE \in BOOLEAN
  OBVIOUS
<1>6. TableTypes' /\ \A j \in Keys : KeyInv(j)'
  BY <1>1, <1>4, <1>5, NodeStep
<1> QED  BY <1>4, <1>6

(* ClosingPacket and Release keep the tables right. *)
LEMMA RemovalKeeps ==
    ASSUME HaTypes, \A j \in Keys : KeyInv(j), NEW n \in Nodes, NEW k \in Keys,
           ClosingPacket(n, k) \/ Release(n, k)
    PROVE  HaTypes' /\ \A j \in Keys : KeyInv(j)'
<1>1. /\ UNCHANGED <<shut, arrived, lost>> /\ NothingReceived(n) /\ Running(n)
      /\ cut' = [cut EXCEPT ![n][k] = TRUE]
  BY DEF ClosingPacket, Release
<1>2. \E f : \E evs \in {<<>>, <<"DELETE">>}, clean \in BOOLEAN : ReleaseFlow(n, k, f, evs, clean)
  <2>1. CASE ClosingPacket(n, k)
    <3>1. PICK del \in BOOLEAN :
             ReleaseFlow(n, k, IF del THEN AfterDeletion(Found(n, k)) ELSE Found(n, k),
                         IF del THEN Deletion(Found(n, k)) ELSE <<>>, TRUE)
      BY <2>1 DEF ClosingPacket
    <3>2. (IF del THEN Deletion(Found(n, k)) ELSE <<>>) \in {<<>>, <<"DELETE">>}
      BY DeletionType
    <3> DEFINE f == IF del THEN AfterDeletion(Found(n, k)) ELSE Found(n, k)
               e == IF del THEN Deletion(Found(n, k)) ELSE <<>>
    <3>3. ReleaseFlow(n, k, f, e, TRUE) /\ e \in {<<>>, <<"DELETE">>} /\ TRUE \in BOOLEAN
      BY <3>1, <3>2
    <3> HIDE DEF f, e
    <3> QED  BY <3>3
  <2>2. CASE Release(n, k)
    <3>1. PICK clean \in BOOLEAN : ReleaseFlow(n, k, flow[n][k], <<>>, clean)
      BY <2>2 DEF Release
    <3>2. <<>> \in {<<>>, <<"DELETE">>}
      OBVIOUS
    <3> QED  BY <3>1, <3>2
  <2> QED  BY <2>1, <2>2
<1>3. Heard(n)
  BY <1>1, RunningHeard
<1>4. To(n)' = To(n) /\ Passes(To(n), To(n)', k)
  BY <1>1, NothingTaken
<1>5. TRUE \in BOOLEAN
  OBVIOUS
<1>6. /\ TableTypes' /\ \A j \in Keys : KeyInv(j)'
      /\ IF n = "a" THEN wire' \in Seq(Message) ELSE back' \in Seq(Message)
  BY <1>1, <1>2, <1>3, <1>4, <1>5, ReleaseKeeps
<1> QED  BY <1>1, <1>6 DEF HaTypes, NothingReceived

(* consume_ha_message of the first message keeps the tables right. *)
LEMMA ConsumeKeeps ==
    ASSUME HaTypes, \A j \in Keys : KeyInv(j), NEW n \in Nodes, Heard(n),
           UNCHANGED <<shut, lost>>, n = "a" => UNCHANGED arrived,
           To(n) \in Seq(Message), To(n) # <<>>, To(n)' = Tail(To(n)), Consume(n, Head(To(n)))
    PROVE  /\ TableTypes' /\ \A j \in Keys : KeyInv(j)'
           /\ IF n = "a" THEN wire' \in Seq(Message) ELSE back' \in Seq(Message)
<1> DEFINE x == Head(To(n))
           k == x.key
<1>1. x \in Message
  BY TailFacts
<1>2. k \in Keys /\ (x = Upd(k) \/ x = Del(k))
  BY <1>1, SMTT(20) DEF Message, Upd, Del
<1>3. /\ x = Upd(k) => ConsumeUpdate(n, k)
      /\ x = Del(k) => ConsumeDelete(n, k)
  <2>1. (x = Upd(k) => x.event = "UPDATE") /\ (x = Del(k) => x.event = "DELETE")
    BY Distinct
  <2>2. /\ x.event = "UPDATE" => ConsumeUpdate(n, x.key)
        /\ x.event = "DELETE" => ConsumeDelete(n, x.key)
    BY DEF Consume
  <2> QED  BY <2>1, <2>2
<1>4. Head(To(n)) = x
  OBVIOUS
<1> HIDE DEF x, k
<1>5. \A j \in Keys :
          /\ Behind(j, To(n)) => Behind(j, To(n)')
          /\ Has(Upd(j), To(n)) => Has(Upd(j), To(n)') \/ x = Upd(j)
          /\ Behind(j, To(n)) /\ x = Del(j) => Has(Upd(j), To(n)')
  BY <1>4, Handled
<1>6. Passes(To(n), To(n)', k)
  <2>1. ASSUME NEW j \in Keys \ {k} PROVE x # Upd(j)
    BY <1>2, Distinct, SMTT(20)
  <2> QED  BY <1>5, <2>1 DEF Passes
<1>7. ASSUME NEW e, e = <<>>
      PROVE  e \in Seq({"UPDATE", "DELETE"})
  BY <1>7, SMTT(20)
<1>8. /\ flow[n][k] \in (SUBSET Flags) \cup {None} /\ told[n][k] \in BOOLEAN
      /\ cut[n][k] \in BOOLEAN /\ Found(n, k) \in SUBSET Flags
  BY <1>2, FoundType
<1>9. told' = told => told' = [told EXCEPT ![n][k] = told[n][k]]
  BY <1>2, SMTT(20) DEF HaTypes, TableTypes
<1>10. cut' = cut => cut' = [cut EXCEPT ![n][k] = cut[n][k]]
  BY <1>2, SMTT(20) DEF HaTypes, TableTypes
<1>11. flow' = flow => flow' = [flow EXCEPT ![n][k] = flow[n][k]]
  BY <1>2, SMTT(20) DEF HaTypes, TableTypes
<1>12. ASSUME Transmit(n, k, <<>>)
       PROVE  /\ Out(Partner(n), k, <<>>)
              /\ IF n = "a" THEN wire' \in Seq(Message) ELSE back' \in Seq(Message)
  BY <1>2, <1>7, <1>12, Transmitted
<1>13. CASE x = Upd(k)
  <2> DEFINE v == (IF flow[n][k] = None THEN Found(n, k) \ {"NEW"} ELSE flow[n][k])
                     \cup {"STANDBY"}
  <2>1. /\ flow' = [flow EXCEPT ![n][k] = v] /\ cut' = [cut EXCEPT ![n][k] = FALSE]
        /\ told' = [told EXCEPT ![n][k] = told[n][k]] /\ Transmit(n, k, <<>>)
    BY <1>3, <1>9, <1>13 DEF ConsumeUpdate
  <2>2. v \in SUBSET Flags /\ "STANDBY" \in v
    <3>1. "STANDBY" \in Flags
      BY DEF Flags
    <3> QED  BY <1>8, <3>1
  <2> HIDE DEF v
  <2>3. v # None /\ FALSE \in BOOLEAN
    BY <2>2, HighAvailabilityAssumption
  <2>4. Behind(k, To(n)) => Behind(k, To(n)')
    BY <1>2, <1>5
  <2>5. TableTypes' /\ \A j \in Keys : KeyInv(j)'
    BY <1>2, <1>6, <1>8, <1>12, <2>1, <2>2, <2>3, <2>4, NodeStep
  <2> QED  BY <1>12, <2>1, <2>5
<1>14. CASE x = Del(k) /\ flow[n][k] = None
  <2>1. Transmit(n, k, <<>>) /\ UNCHANGED tables
    BY <1>3, <1>14 DEF ConsumeDelete
  <2>2. /\ flow' = [flow EXCEPT ![n][k] = flow[n][k]] /\ cut' = [cut EXCEPT ![n][k] = cut[n][k]]
        /\ told' = [told EXCEPT ![n][k] = told[n][k]]
    BY <1>9, <1>10, <1>11, <2>1 DEF tables
  <2>3. Behind(k, To(n)) => Behind(k, To(n)') /\ Has(Upd(k), To(n)')
    BY <1>2, <1>5, <1>14
  <2>4. told[n][k] => flow[n][k] # None
    BY <1>2 DEF KeyInv
  <2>5. TableTypes' /\ \A j \in Keys : KeyInv(j)'
    BY <1>2, <1>6, <1>8, <1>12, <1>14, <2>1, <2>2, <2>3, <2>4, NodeStep
  <2> QED  BY <1>12, <2>1, <2>5
<1>15. CASE x = Del(k) /\ flow[n][k] # None
  <2>1. ReleaseFlow(n, k, flow[n][k], <<>>, TRUE) /\ cut' = [cut EXCEPT ![n][k] = cut[n][k]]
    BY <1>3, <1>10, <1>15 DEF ConsumeDelete
  <2>2. Behind(k, To(n)) => Behind(k, To(n)') /\ Has(Upd(k), To(n)')
    BY <1>2, <1>5, <1>15
  <2>3. <<>> \in {<<>>, <<"DELETE">>}
    OBVIOUS
  <2> QED  BY <1>2, <1>6, <1>8, <2>1, <2>2, <2>3, ReleaseKeeps
<1> QED  BY <1>2, <1>13, <1>14, <1>15

(* Taking a message out leaves messages. *)
LEMMA RemovedType ==
    ASSUME NEW S, NEW s \in Seq(S), NEW i \in 1 .. Len(s)
    PROVE  RemoveAt(s, i) \in Seq(S)
<1>1. SubSeq(s, 1, i - 1) \in Seq(S)
  BY SMTT(20)
<1>2. SubSeq(s, i + 1, Len(s)) \in Seq(S)
  BY SMTT(20)
<1> QED  BY <1>1, <1>2, ConcatFacts DEF RemoveAt

(* What get returns is the first of the messages that arrived. *)
LEMMA Got ==
    ASSUME InOrder = TRUE, HaInv, GetBegin \/ GetSlot \/ GetIndex
    PROVE  /\ RingNext /\ UNCHANGED <<wtodo, puts>>
           /\ IF rtodo # {} /\ rtodo' = {}
              THEN got' - gets' + 1 = 1 /\ gets' = gets + 1 /\ arrived # <<>>
              ELSE gets' = gets
<1>1. IndexInv /\ ValueInv /\ Counted /\ TypeOK
  BY DEF HaInv, IndexInv
<1>2. CASE GetBegin
  BY <1>2, SMTT(20) DEF GetBegin, RingNext
<1>3. CASE GetSlot
  <2>1. rtodo' = {"index"}
    <3>1. "slot" \in rtodo /\ "index" \in rtodo /\ rtodo' = rtodo \ {"slot"}
      BY <1>1, <1>3 DEF GetSlot, ValueInv
    <3>2. rtodo \in SUBSET {"slot", "index"}
      BY <1>1 DEF TypeOK
    <3> QED  BY <3>1, <3>2
  <2> QED  BY <1>3, <2>1, SMTT(20) DEF GetSlot, RingNext
<1>4. CASE GetIndex
  <2>1. rtodo = {"index"} /\ rtodo' = {} /\ got = gets + 1 /\ NextIx(rx) # wx
    <3>1. /\ "index" \in rtodo /\ "slot" \notin rtodo /\ rtodo' = rtodo \ {"index"}
          /\ NextIx(rx) # wx
      BY <1>1, <1>4 DEF GetIndex, IndexInv
    <3>2. rtodo \in SUBSET {"slot", "index"}
      BY <1>1 DEF TypeOK
    <3>3. rtodo = {"index"} /\ rtodo' = {}
      BY <3>1, <3>2
    <3>4. got = gets + 1
      BY <1>1, <3>3 DEF ValueInv, GetsInOrder
    <3> QED  BY <3>1, <3>3, <3>4
  <2>2. gets' = gets + 1 /\ UNCHANGED <<wtodo, puts, got>>
    BY <1>4, <2>1, SMTT(20) DEF GetIndex
  <2>3. Count >= 1
    BY <1>1, <2>1, RingAssumption, SMTT(20) DEF TypeOK, Count, NextIx, Slots, IndexInv
  <2>4. Len(arrived) >= 1
    BY <1>1, <2>3, SMTT(20) DEF Counted, IndexInv, TypeOK
  <2>5. arrived # <<>>
    BY <2>4, SMTT(20)
  <2>6. got' - gets' + 1 = 1
    BY <1>1, <2>1, <2>2, SMTT(20) DEF TypeOK
  <2> QED  BY <1>4, <2>1, <2>2, <2>5, <2>6, SMTT(20) DEF RingNext
<1> QED  BY <1>2, <1>3, <1>4

(* The ring holds what arrived, step by step of the receive thread. *)
LEMMA ReceiveKeeps ==
    ASSUME InOrder = TRUE, HaInv, ReceiveThread
    PROVE  /\ RingNext /\ Counted' /\ arrived' \in Seq(Message) /\ wire' \in Seq(Message)
           /\ lost' \in BOOLEAN /\ (lost => lost') /\ (lost' \/ To("b")' = To("b"))
<1>1. IndexInv /\ ValueInv /\ Counted /\ TypeOK /\ HaTypes
  BY DEF HaInv, IndexInv
<1>2. wire \in Seq(Message) /\ arrived \in Seq(Message) /\ lost \in BOOLEAN
  BY <1>1 DEF HaTypes
<1>3. CASE /\ wire # <<>> /\ PutBegin /\ wire' = Tail(wire)
           /\ arrived' = IF drops' THEN arrived ELSE Append(arrived, Head(wire))
           /\ lost' = (lost \/ drops')
  <2>1. RingNext
    BY <1>3 DEF RingNext
  <2>2. /\ UNCHANGED <<puts, gets>> /\ wtodo = {}
        /\ \/ drops' = TRUE /\ wtodo' = {}
           \/ drops' = FALSE /\ wtodo' = {"slot", "index"}
    BY <1>3 DEF PutBegin
  <2>3. /\ Tail(wire) \in Seq(Message) /\ Append(arrived, Head(wire)) \in Seq(Message)
        /\ Append(arrived, Head(wire)) \o Tail(wire) = arrived \o wire
    BY <1>2, <1>3, MovedOn, TailFacts
  <2>4. Len(Append(arrived, Head(wire))) = Len(arrived) + 1
    BY <1>2, SMTT(20)
  <2>5. CASE drops' = TRUE
    <3>1. arrived' = arrived /\ wtodo' = {} /\ lost' = TRUE
      BY <1>2, <1>3, <2>2, <2>5
    <3>2. Counted'
      BY <1>1, <2>2, <3>1 DEF Counted
    <3> QED  BY <1>2, <1>3, <2>1, <2>3, <3>1, <3>2
  <2>6. CASE drops' = FALSE
    <3>1. arrived' = Append(arrived, Head(wire)) /\ wtodo' = {"slot", "index"} /\ lost' = lost
      BY <1>2, <1>3, <2>2, <2>6
    <3>2. Len(arrived) = puts - gets /\ puts \in Nat /\ gets \in Nat
      BY <1>1, <2>2, SMTT(20) DEF Counted, TypeOK
    <3>3. Counted'
      BY <2>2, <2>4, <3>1, <3>2, SMTT(20) DEF Counted
    <3>4. To("b")' = To("b")
      BY <1>3, <2>3, <3>1 DEF To
    <3> QED  BY <1>2, <1>3, <2>1, <2>3, <3>1, <3>3, <3>4
  <2> QED  BY <2>2, <2>5, <2>6
<1>4. CASE (PutSlot \/ PutIndex) /\ UNCHANGED <<wire, arrived, lost>>
  <2>1. RingNext
    BY <1>4 DEF RingNext
  <2>2. To("b")' = To("b")
    BY <1>4 DEF To
  <2>3. CASE PutSlot
    <3>1. UNCHANGED <<puts, gets>> /\ (("index" \in wtodo') <=> ("index" \in wtodo))
      BY <2>3 DEF PutSlot
    <3>2. Counted'
      BY <1>1, <1>4, <3>1 DEF Counted
    <3> QED  BY <1>2, <1>4, <2>1, <2>2, <3>2
  <2>4. CASE PutIndex
    <3>1. "index" \in wtodo /\ NextIx(wx) # rx
      BY <1>1, <2>4 DEF PutIndex, IndexInv
    <3>2. puts' = puts + 1 /\ gets' = gets /\ "index" \notin wtodo'
      BY <2>4, <3>1 DEF PutIndex
    <3>3. puts \in Nat /\ gets \in Nat
      BY <1>1 DEF TypeOK
    <3>4. Counted'
      BY <1>1, <1>4, <3>1, <3>2, <3>3, SMTT(20) DEF Counted
    <3> QED  BY <1>2, <1>4, <2>1, <2>2, <3>4
  <2> QED  BY <1>4, <2>3, <2>4
<1> QED  BY <1>3, <1>4 DEF ReceiveThread

(* What a lost message leaves true, and what a step that loses none does. *)
LEMMA QuietKeeps ==
    ASSUME \A j \in Keys : KeyInv(j), UNCHANGED <<flow, told, cut, shut>>,
           lost => lost',
           lost' \/ \A n \in Nodes : To(n)' = To(n)
    PROVE  \A j \in Keys : KeyInv(j)'
<1> SUFFICES ASSUME NEW j \in Keys PROVE KeyInv(j)'
  OBVIOUS
<1>1. \A n : Heard(n)' = Heard(n)
  BY DEF Heard
<1>2. KeyInv(j)
  OBVIOUS
<1>3. CASE lost'
  BY <1>1, <1>2, <1>3 DEF KeyInv
<1>4. CASE ~lost'
  <2>1. ~lost /\ \A n \in Nodes : To(n)' = To(n)
    BY <1>4
  <2>2. ASSUME NEW n \in Nodes
        PROVE  /\ Heard(n)' /\ told'[n][j] => flow'[n][j] # None
               /\ ~lost' /\ Heard(Partner(n))' => Echo(n, Partner(n), j)'
    <3>1. Partner(n) \in Nodes
      BY Two
    <3>2. Heard(Partner(n))' => Echo(n, Partner(n), j)
      BY <1>1, <1>2, <2>1 DEF KeyInv
    <3>3. Heard(Partner(n))' => Echo(n, Partner(n), j)'
      BY <2>1, <3>1, <3>2 DEF Echo
    <3>4. Heard(n)' /\ told'[n][j] => flow'[n][j] # None
      BY <1>1, <1>2 DEF KeyInv
    <3> QED  BY <3>3, <3>4
  <2>3. ~lost' /\ ~shut' => Crossed(j)'
    <3>1. ~shut' => Crossed(j)
      BY <1>2, <2>1 DEF KeyInv
    <3>2. Crossed(j) => Crossed(j)'
      BY <2>1 DEF Crossed, Owned, Own
    <3> QED  BY <3>1, <3>2
  <2> QED  BY <2>2, <2>3 DEF KeyInv
<1> QED  BY <1>3, <1>4

(* Analyzer::term of a leaves what is under way to b, and b's table. *)
LEMMA ShutDownKeeps ==
    ASSUME HaTypes, \A j \in Keys : KeyInv(j), ShutDown
    PROVE  HaTypes' /\ \A j \in Keys : KeyInv(j)'
<1>1. /\ shut' = TRUE /\ back' = <<>> /\ UNCHANGED <<wire, arrived, lost, cut>>
      /\ flow' = [flow EXCEPT !["a"] = [k \in Keys |-> None]]
      /\ told' = [told EXCEPT !["a"] = [k \in Keys |-> Own("a", k) /\ told["a"][k]]]
  BY DEF ShutDown
<1>2. "a" \in Nodes /\ "b" \in Nodes /\ "a" # "b"
  BY DEF Nodes
<1>3. [k \in Keys |-> None] \in [Keys -> (SUBSET Flags) \cup {None}]
  OBVIOUS
<1>4. flow' \in [Nodes -> [Keys -> (SUBSET Flags) \cup {None}]] /\ flow'["b"] = flow["b"]
  BY <1>1, <1>2, <1>3 DEF HaTypes, TableTypes
<1>5. \A k \in Keys : told["a"][k] \in BOOLEAN /\ (Own("a", k) /\ told["a"][k]) \in BOOLEAN
  BY <1>2 DEF HaTypes, TableTypes
<1>6. [k \in Keys |-> Own("a", k) /\ told["a"][k]] \in [Keys -> BOOLEAN]
  BY <1>5
<1>7. /\ told' \in [Nodes -> [Keys -> BOOLEAN]] /\ told'["b"] = told["b"]
      /\ \A k \in Keys : told'["a"][k] => told["a"][k]
  BY <1>1, <1>2, <1>5, <1>6 DEF HaTypes, TableTypes
<1>8. back' \in Seq(Message)
  BY <1>1, SMTT(20)
<1>9. HaTypes'
  BY <1>1, <1>4, <1>7, <1>8 DEF HaTypes, TableTypes
<1>10. ASSUME NEW j \in Keys PROVE KeyInv(j)'
  <2>1. KeyInv(j)
    OBVIOUS
  <2>2. Heard("b") /\ Heard("b")' /\ ~Heard("a")' /\ Partner("a") = "b" /\ Partner("b") = "a"
    BY <1>1 DEF Heard, Partner
  <2>3. To("b")' = To("b")
    BY <1>1 DEF To
  <2>4. told'["b"][j] => flow'["b"][j] # None
    BY <1>2, <1>4, <1>7, <2>1, <2>2 DEF KeyInv
  <2>5. ~lost' => Echo("a", "b", j)'
    <3>1. ~lost => Echo("a", "b", j)
      BY <1>2, <2>1, <2>2 DEF KeyInv
    <3> QED  BY <1>1, <1>4, <1>7, <2>3, <3>1 DEF Echo
  <2>6. \A n \in Nodes : n = "a" \/ n = "b"
    BY DEF Nodes
  <2> QED  BY <1>1, <2>2, <2>4, <2>5, <2>6 DEF KeyInv
<1> QED  BY <1>9, <1>10

(* The inductive invariant holds at first. *)
LEMMA HaInitial == HaInit => HaInv
<1> SUFFICES ASSUME HaInit PROVE HaInv
  OBVIOUS
<1>1. IndexInv /\ ValueInv
  BY IndexInit, ValueInit DEF HaInit
<1>2. <<>> \in Seq(Message) /\ Len(<<>>) = 0
  BY SMTT(20)
<1>3. HaTypes
  BY <1>2 DEF HaInit, HaTypes, TableTypes
<1>4. Counted
  BY <1>2, SMTT(20) DEF HaInit, RingInit, Counted
<1>5. ASSUME NEW k \in Keys, NEW n \in Nodes PROVE ~told[n][k]
  BY DEF HaInit
<1>6. ASSUME NEW k \in Keys PROVE KeyInv(k)
  <2>1. \E n \in Nodes : ~told[n][k]
    BY <1>5 DEF Nodes
  <2> QED  BY <1>5, <2>1 DEF KeyInv, Echo, Crossed, Owned
<1> QED  BY <1>1, <1>3, <1>4, <1>6 DEF HaInv

(* Every step keeps the inductive invariant. *)
LEMMA HaStep ==
    ASSUME InOrder = TRUE
    PROVE  HaInv /\ [HaNext]_havars => HaInv'
<1> SUFFICES ASSUME HaInv, [HaNext]_havars PROVE HaInv'
  OBVIOUS
<1>1. IndexInv /\ ValueInv /\ HaTypes /\ Counted /\ \A k \in Keys : KeyInv(k)
  BY DEF HaInv
<1>2. [RingNext]_vars => IndexInv' /\ ValueInv'
  BY <1>1, IndexStep, ValueStep
<1>3. UNCHANGED vars => IndexInv' /\ ValueInv' /\ UNCHANGED <<puts, gets, wtodo>>
  BY <1>2 DEF vars
<1>4. ASSUME UNCHANGED vars, UNCHANGED arrived, HaTypes', \A k \in Keys : KeyInv(k)' PROVE HaInv'
  BY <1>1, <1>3, <1>4 DEF HaInv, Counted
<1>5. ASSUME NEW n \in Nodes, NEW k \in Keys, Packet(n, k) PROVE HaInv'
  <2>1. UNCHANGED vars /\ UNCHANGED arrived
    BY <1>5 DEF Packet
  <2> QED  BY <1>1, <1>4, <1>5, <2>1, PacketKeeps
<1>6. ASSUME NEW n \in Nodes, NEW k \in Keys, ClosingPacket(n, k) \/ Release(n, k) PROVE HaInv'
  <2>1. UNCHANGED vars /\ UNCHANGED arrived
    BY <1>6 DEF ClosingPacket, Release
  <2> QED  BY <1>1, <1>4, <1>6, <2>1, RemovalKeeps
<1>7. CASE ShutDown
  <2>1. UNCHANGED vars /\ UNCHANGED arrived
    BY <1>7 DEF ShutDown
  <2> QED  BY <1>1, <1>4, <1>7, <2>1, ShutDownKeeps
<1>8. CASE ReceiveThread
  <2>1. UNCHANGED <<flow, told, cut, shut, back>>
    BY <1>8 DEF ReceiveThread, tables
  <2>2. /\ RingNext /\ Counted' /\ arrived' \in Seq(Message) /\ wire' \in Seq(Message)
        /\ lost' \in BOOLEAN /\ (lost => lost') /\ (lost' \/ To("b")' = To("b"))
    BY <1>8, ReceiveKeeps
  <2>3. To("a")' = To("a")
    BY <2>1 DEF To
  <2>4. lost' \/ \A n \in Nodes : To(n)' = To(n)
    BY <2>2, <2>3 DEF Nodes
  <2>5. \A k \in Keys : KeyInv(k)'
    BY <1>1, <2>1, <2>2, <2>4, QuietKeeps
  <2>6. HaTypes'
    BY <1>1, <2>1, <2>2 DEF HaTypes, TableTypes
  <2> QED  BY <1>2, <2>2, <2>5, <2>6 DEF HaInv
<1>9. CASE Reset
  <2>1. UNCHANGED <<vars, flow, told, cut, shut, arrived, back>> /\ wire' = <<>> /\ lost' = TRUE
    BY <1>9 DEF Reset, tables
  <2>2. \A k \in Keys : KeyInv(k)'
    BY <1>1, <2>1, QuietKeeps
  <2>3. <<>> \in Seq(Message)
    BY SMTT(20)
  <2>4. HaTypes'
    BY <1>1, <2>1, <2>3 DEF HaTypes, TableTypes
  <2> QED  BY <1>4, <2>1, <2>2, <2>4
<1>10. CASE Overrun
  <2>1. /\ UNCHANGED <<vars, flow, told, cut, shut, arrived, wire>>
        /\ back' = RemoveAt(back, Size - 1) /\ lost' = TRUE /\ Len(back) > Size - 2
    BY <1>10 DEF Overrun, tables
  <2>2. \A k \in Keys : KeyInv(k)'
    BY <1>1, <2>1, QuietKeeps
  <2>3. back \in Seq(Message)
    BY <1>1 DEF HaTypes
  <2>4. Size - 1 \in 1 .. Len(back)
    BY <2>1, <2>3, RingAssumption, SMTT(20)
  <2>5. back' \in Seq(Message)
    BY <2>1, <2>3, <2>4, RemovedType
  <2>6. HaTypes'
    BY <1>1, <2>1, <2>5 DEF HaTypes, TableTypes
  <2> QED  BY <1>4, <2>1, <2>2, <2>6
<1>11. CASE ProcessReceive
  <2>1. /\ RingNext /\ UNCHANGED <<wtodo, puts>>
        /\ IF rtodo # {} /\ rtodo' = {}
           THEN got' - gets' + 1 = 1 /\ gets' = gets + 1 /\ arrived # <<>>
           ELSE gets' = gets
    BY <1>11, Got DEF ProcessReceive
  <2>2. UNCHANGED <<shut, wire, lost>>
    BY <1>11 DEF ProcessReceive
  <2>3. CASE rtodo # {} /\ rtodo' = {}
    <3>1. /\ gets' = gets + 1 /\ arrived # <<>>
          /\ Consume("b", arrived[1]) /\ arrived' = RemoveAt(arrived, 1)
      BY <1>11, <2>1, <2>3 DEF ProcessReceive
    <3>2. arrived \in Seq(Message) /\ wire \in Seq(Message)
      BY <1>1 DEF HaTypes
    <3>3. /\ arrived' = Tail(arrived) /\ To("b") # <<>> /\ Head(To("b")) = arrived[1]
          /\ To("b")' = Tail(To("b"))
      BY <2>2, <3>1, <3>2, TakenFirst DEF To
    <3>4. To("b") \in Seq(Message) /\ "b" \in Nodes /\ Heard("b") /\ "b" # "a"
      BY <3>2, ConcatFacts DEF To, Nodes, Heard
    <3>5. /\ TableTypes' /\ \A j \in Keys : KeyInv(j)'
          /\ back' \in Seq(Message)
      BY <1>1, <2>2, <3>1, <3>3, <3>4, ConsumeKeeps
    <3>6. arrived' \in Seq(Message) /\ Len(arrived') = Len(arrived) - 1 /\ Len(arrived) \in Nat
      BY <3>1, <3>2, <3>3, TailFacts
    <3>7. HaTypes'
      BY <1>1, <2>2, <3>5, <3>6 DEF HaTypes
    <3>8. puts \in Nat /\ gets \in Nat
      BY <1>1 DEF IndexInv, TypeOK
    <3>9. Counted'
      BY <1>1, <2>1, <3>1, <3>6, <3>8, SMTT(20) DEF Counted
    <3> QED  BY <1>2, <2>1, <3>5, <3>7, <3>9 DEF HaInv
  <2>4. CASE ~(rtodo # {} /\ rtodo' = {})
    <3>1. UNCHANGED <<flow, told, cut, arrived, back, gets>>
      BY <1>11, <2>1, <2>4 DEF ProcessReceive, tables
    <3>2. \A n \in Nodes : To(n)' = To(n)
      BY <2>2, <3>1 DEF To
    <3>3. \A k \in Keys : KeyInv(k)'
      BY <1>1, <2>2, <3>1, <3>2, QuietKeeps
    <3>4. HaTypes'
      BY <1>1, <2>2, <3>1 DEF HaTypes, TableTypes
    <3>5. Counted'
      BY <1>1, <2>1, <3>1 DEF Counted
    <3> QED  BY <1>2, <2>1, <3>3, <3>4, <3>5 DEF HaInv
  <2> QED  BY <2>3, <2>4
<1>12. CASE ProcessBack
  <2>1. /\ ~shut /\ back # <<>> /\ Consume("a", Head(back)) /\ back' = Tail(back)
        /\ UNCHANGED <<vars, shut, arrived, lost>>
    BY <1>12 DEF ProcessBack
  <2>2. back \in Seq(Message)
    BY <1>1 DEF HaTypes
  <2>3. To("a") = back /\ To("a")' = Tail(To("a")) /\ "a" \in Nodes /\ Heard("a")
    BY <2>1 DEF To, Nodes, Heard
  <2>4. TableTypes' /\ wire' \in Seq(Message) /\ \A j \in Keys : KeyInv(j)'
    BY <1>1, <2>1, <2>2, <2>3, ConsumeKeeps
  <2>5. back' \in Seq(Message)
    BY <2>1, <2>2, TailFacts
  <2>6. HaTypes'
    BY <1>1, <2>1, <2>4, <2>5 DEF HaTypes
  <2> QED  BY <1>4, <2>1, <2>4, <2>6
<1>13. CASE UNCHANGED havars
  <2>1. UNCHANGED <<vars, flow, told, cut, shut, arrived, back, wire, lost>>
    BY <1>13 DEF havars, tables
  <2>2. \A n \in Nodes : To(n)' = To(n)
    BY <2>1 DEF To
  <2>3. \A k \in Keys : KeyInv(k)'
    BY <1>1, <2>1, <2>2, QuietKeeps
  <2>4. HaTypes'
    BY <1>1, <2>1 DEF HaTypes, TableTypes
  <2> QED  BY <1>4, <2>1, <2>3, <2>4
<1> QED
  BY <1>5, <1>6, <1>7, <1>8, <1>9, <1>10, <1>11, <1>12, <1>13 DEF HaNext

(* Nothing under way has nothing. *)
LEMMA NothingLeft ==
    ASSUME Settled, NEW n \in Nodes, NEW x
    PROVE  ~Has(x, To(n))
<1>1. Len(<<>>) = 0 /\ <<>> \o <<>> = <<>> /\ \A i \in 1 .. 0 : FALSE
  BY SMTT(20)
<1> QED  BY <1>1 DEF Settled, To, Has

-----------------------------------------------------------------------------
(* TcpConnector::process_receive and SideChannel::process use the receive  *)
(* ring as one writer and one reader, and nothing else touches it: what is *)
(* proved of Ring holds of it.                                             *)
THEOREM PairUsesRing == HaSpec => Spec
<1>1. HaInit => RingInit
  BY DEF HaInit
<1>2. [HaNext]_havars => [RingNext]_vars
  <2> SUFFICES ASSUME [HaNext]_havars PROVE [RingNext]_vars
    OBVIOUS
  <2>1. ASSUME NEW n \in Nodes, NEW k \in Keys,
               Packet(n, k) \/ ClosingPacket(n, k) \/ Release(n, k)
        PROVE  UNCHANGED vars
    BY <2>1 DEF Packet, ClosingPacket, Release
  <2>2. ShutDown \/ Reset \/ Overrun \/ ProcessBack => UNCHANGED vars
    BY DEF ShutDown, Reset, Overrun, ProcessBack
  <2>3. ReceiveThread \/ ProcessReceive => RingNext
    BY DEF ReceiveThread, ProcessReceive, RingNext
  <2>4. UNCHANGED havars => UNCHANGED vars
    BY DEF havars
  <2> QED  BY <2>1, <2>2, <2>3, <2>4 DEF HaNext
<1> QED  BY <1>1, <1>2, PTL DEF HaSpec, Spec

(* In program order, HaInv is an invariant of the pair. *)
THEOREM PairInvariant ==
    ASSUME InOrder = TRUE
    PROVE  HaSpec => []HaInv
  BY HaInitial, HaStep, PTL DEF HaSpec

(* Once every message was handled and none was lost, one of two partners   *)
(* that sent updates for a flow has it in standby, for any number of flows *)
(* and events and however consume_ha_message and process_update interleave *)
(* (OneOwner).                                                             *)
THEOREM NoTwoOwners ==
    ASSUME InOrder = TRUE
    PROVE  HaSpec => []OneOwner
<1>1. HaInv => OneOwner
  <2> SUFFICES ASSUME HaInv, Settled, ~lost, ~shut, NEW k \in Keys
               PROVE  \E n \in Nodes : ~(Own(n, k) /\ told[n][k])
    BY DEF OneOwner
  <2>1. Crossed(k)
    BY DEF HaInv, KeyInv
  <2> QED  BY <2>1, NothingLeft DEF Crossed, Owned
<1> QED  BY <1>1, PairInvariant, PTL

(* Once every message was handled and none was lost, the partner of a node *)
(* that sent an update for its flow has the flow or removed it by itself:  *)
(* no deletion overtakes the update that follows it (Backup).              *)
THEOREM UpdateReachesPartner ==
    ASSUME InOrder = TRUE
    PROVE  HaSpec => []Backup
<1>1. HaInv => Backup
  <2> SUFFICES ASSUME HaInv, Settled, ~lost, ~shut, NEW k \in Keys, NEW n \in Nodes,
                      NEW m \in Nodes \ {n}, told[n][k]
               PROVE  flow[m][k] # None \/ cut[m][k]
    BY DEF Backup
  <2>1. m = Partner(n) /\ m \in Nodes
    BY Two
  <2>2. Heard(m)
    BY DEF Heard
  <2>3. Echo(n, m, k)
    BY <2>1, <2>2 DEF HaInv, KeyInv
  <2> QED  BY <2>1, <2>3, NothingLeft DEF Echo
<1> QED  BY <1>1, PairInvariant, PTL

(* After a has shut down and every message it sent was handled, b has the  *)
(* flows a had sent updates for, or removed them by itself: Analyzer::term *)
(* purges the flows of a and not those of b (Failover).                    *)
THEOREM PartnerTakesOver ==
    ASSUME InOrder = TRUE
    PROVE  HaSpec => []Failover
<1>1. HaInv => Failover
  <2> SUFFICES ASSUME HaInv, Settled, ~lost, NEW k \in Keys, told["a"][k]
               PROVE  flow["b"][k] # None \/ cut["b"][k]
    BY DEF Failover
  <2>1. Partner("a") = "b" /\ Heard("b") /\ "a" \in Nodes /\ "b" \in Nodes
    BY DEF Partner, Heard, Nodes
  <2>2. Echo("a", "b", k)
    BY <2>1 DEF HaInv, KeyInv
  <2> QED  BY <2>1, <2>2, NothingLeft DEF Echo
<1> QED  BY <1>1, PairInvariant, PTL
=============================================================================
