--------------------------- MODULE FlowCache_proof --------------------------
(***************************************************************************)
(* What holds of FlowCache for any number of keys, any limits and any      *)
(* sequence of packets, time-outs, reloads and tunings: the flows are      *)
(* counted, nothing points to a flow that has gone, pruning makes room and *)
(* never takes the flow of the packet at hand, a closed flow waits for     *)
(* nothing but its suspended packets, and tuning spares blocked flows.     *)
(***************************************************************************)
EXTENDS FlowCache, SequenceTheorems, TLAPS

USE ZenonT(30)

(* The table: what lies in it, what points into it, what is free. *)
Table ==
    /\ lru \in Seq(Keys) /\ IsInjective(lru)
    /\ flow \in [Range(lru) -> FlowType]
    /\ free \in Seq(Types \cup {None}) /\ allocated = Len(lru) + Len(free)
    /\ cursor \in Range(lru) \cup {None}
    /\ uni \in [{"ip", "other"} -> Seq(Keys)]
    /\ count \in [{"ip", "other"} -> 0 .. CountMod - 1]
    /\ LinksInTable
    /\ ClosedReleased

(* The configuration and the locals of the loops. *)
Locals ==
    /\ max \in MaxFlows /\ reloads \in 0 .. MaxReloads
    /\ pc \in {"idle", "alloc", "stale", "unis", "excess", "take", "process",
               "timeout", "tune", "purge", "done", "undefined"}
    /\ key \in Keys \cup {None}
    /\ pruned \in Nat /\ blocks \in Nat /\ ignore \in Nat
    /\ todo \in Nat /\ mode \in 0 .. 3 /\ check \in Nat
    /\ pc \notin {"stale", "excess", "take"} => pruned = 0
    /\ pc \notin {"tune", "undefined"} => mode = 0 /\ check = 0

(* Allocating: the key has no flow; until one is pruned the table is full   *)
(* and none is free.                                                        *)
Room ==
    /\ pc \in {"alloc", "stale", "unis", "excess", "take"} => key \in Keys \ Range(lru)
    /\ pc \in {"stale", "unis", "excess"} =>
          IF pruned = 0 THEN free = <<>> /\ Len(lru) >= max ELSE free # <<>>
    /\ pc = "take" => free # <<>>

(* Tuning: the flows that were passed over are the most recently used ones. *)
Tuned ==
    pc = "tune" =>
        /\ check <= Len(lru)
        /\ mode = 0 => check = 0
        /\ mode = 2 => \A i \in 1 .. Len(lru) - check : flow[lru[i]].blocked
        /\ mode = 3 => \A i \in 1 .. Len(lru) : flow[lru[i]].blocked

IInv == Table /\ Locals /\ Room /\ CurrentKept /\ Tuned
-----------------------------------------------------------------------------
(* Sequences without repetition. *)

(* The range of a sequence. *)
LEMMA RangeFacts ==
    ASSUME NEW S, NEW s \in Seq(S)
    PROVE  /\ \A x : x \in Range(s) <=> \E i \in 1 .. Len(s) : s[i] = x
           /\ Range(s) \subseteq S /\ Len(s) \in Nat /\ DOMAIN s = 1 .. Len(s)
           /\ s = <<>> <=> Len(s) = 0
           /\ s = <<>> <=> Range(s) = {}
  <1>1. /\ \A x : x \in Range(s) <=> \E i \in 1 .. Len(s) : s[i] = x
        /\ Range(s) \subseteq S /\ Len(s) \in Nat /\ DOMAIN s = 1 .. Len(s)
    BY SMTT(20) DEF Range
  <1>2. s = <<>> <=> Len(s) = 0
    BY EmptySeq
  <1>3. Len(s) # 0 => 1 \in 1 .. Len(s)
    BY <1>1, SMTT(20)
  <1>4. Len(s) = 0 => 1 .. Len(s) = {}
    BY <1>1, SMTT(20)
  <1>5. s = <<>> <=> Range(s) = {}
    BY <1>1, <1>2, <1>3, <1>4
  <1>. QED  BY <1>1, <1>2, <1>5

(* Where an element is. *)
LEMMA PositionFacts ==
    ASSUME NEW S, NEW s \in Seq(S), NEW f \in Range(s)
    PROVE  Position(s, f) \in 1 .. Len(s) /\ s[Position(s, f)] = f
  <1>1. \E i \in DOMAIN s : s[i] = f
    BY DEF Range
  <1>2. Position(s, f) \in DOMAIN s /\ s[Position(s, f)] = f
    BY <1>1 DEF Position
  <1>. QED  BY <1>2, SMTT(20)

(* Remove closes the gap, and keeps the rest as it is. *)
LEMMA RemoveFacts ==
    ASSUME NEW S, NEW s \in Seq(S), IsInjective(s), NEW f
    PROVE  /\ Remove(s, f) \in Seq(S) /\ IsInjective(Remove(s, f))
           /\ Range(Remove(s, f)) = Range(s) \ {f}
           /\ f \in Range(s) => Len(Remove(s, f)) = Len(s) - 1
           /\ f \notin Range(s) => Remove(s, f) = s
           /\ \A i \in 1 .. Len(s) - 1 : f = s[Len(s)] => Remove(s, f)[i] = s[i]
  <1>1. Len(s) \in Nat /\ DOMAIN s = 1 .. Len(s)
    BY SMTT(20)
  <1>2. CASE f \notin Range(s)
    <2>1. Remove(s, f) = s
      BY <1>2 DEF Remove
    <2>. QED  BY <1>1, <1>2, <2>1
  <1>3. CASE f \in Range(s)
    <2> DEFINE n == Len(s) - 1
               p == Position(s, f)
               r == [i \in 1 .. n |-> IF i < p THEN s[i] ELSE s[i + 1]]
    <2>1. Remove(s, f) = r
      BY <1>3 DEF Remove
    <2>2. p \in 1 .. Len(s) /\ s[p] = f
      BY <1>3, PositionFacts
    <2>3. n \in Nat /\ p \in 1 .. n + 1 /\ DOMAIN s = 1 .. n + 1
      BY <1>1, <2>2, SMTT(20)
    <2>4. \A i \in 1 .. n : s[i] \in S /\ s[i + 1] \in S
      BY <1>1, SMTT(20)
    <2>. HIDE DEF n, p
    <2>5. r \in Seq(S) /\ Len(r) = n /\ DOMAIN r = 1 .. n
      <3>1. r \in [1 .. n -> S]
        BY <2>4
      <3>. QED  BY <2>3, <3>1, SMTT(20)
    <2>6. \A i, j \in 1 .. n + 1 : s[i] = s[j] => i = j
      BY <2>3 DEF IsInjective
    <2>7. IsInjective(r)
      BY <2>3, <2>5, <2>6, SMTT(20) DEF IsInjective
    <2>8. ASSUME NEW x \in Range(r) PROVE x \in Range(s) /\ x # f
      <3>1. PICK i \in 1 .. n : x = r[i]
        BY <2>5 DEF Range
      <3>2. \E j \in 1 .. n + 1 : j # p /\ x = s[j]
        BY <2>3, <3>1, SMTT(20)
      <3>. QED  BY <2>2, <2>3, <2>6, <3>2 DEF Range
    <2>9. ASSUME NEW x \in Range(s), x # f PROVE x \in Range(r)
      <3>1. PICK j \in 1 .. n + 1 : x = s[j]
        BY <2>3 DEF Range
      <3>2. j # p
        BY <2>2, <2>9, <3>1
      <3>3. \E i \in 1 .. n : r[i] = x
        <4>1. CASE j < p
          <5>1. j \in 1 .. n /\ r[j] = s[j]
            BY <2>3, <4>1, SMTT(20)
          <5>. QED  BY <3>1, <5>1
        <4>2. CASE p < j
          <5>1. j - 1 \in 1 .. n /\ ~(j - 1 < p) /\ (j - 1) + 1 = j
            BY <2>3, <4>2, SMTT(20)
          <5>2. r[j - 1] = s[j]
            BY <5>1
          <5>. QED  BY <3>1, <5>1, <5>2
        <4>. QED  BY <2>3, <3>2, <4>1, <4>2, SMTT(20)
      <3>. QED  BY <2>5, <3>3 DEF Range
    <2>10. f = s[Len(s)] => \A i \in 1 .. n : r[i] = s[i]
      <3>1. Len(s) = n + 1
        BY <1>1, SMTT(20) DEF n
      <3>2. f = s[Len(s)] => p = n + 1
        BY <2>2, <2>3, <2>6, <3>1, SMTT(20)
      <3>. QED  BY <2>3, <3>2, SMTT(20)
    <2>11. n = Len(s) - 1
      BY DEF n
    <2>. QED  BY <1>3, <2>1, <2>5, <2>7, <2>8, <2>9, <2>10, <2>11
  <1>. QED  BY <1>2, <1>3

(* An element put in front. *)
LEMMA ConsFacts ==
    ASSUME NEW S, NEW s \in Seq(S), NEW e \in S
    PROVE  /\ <<e>> \o s \in Seq(S) /\ Len(<<e>> \o s) = Len(s) + 1
           /\ (<<e>> \o s)[1] = e /\ Head(<<e>> \o s) = e /\ <<e>> \o s # <<>>
           /\ \A i \in 1 .. Len(s) : (<<e>> \o s)[i + 1] = s[i]
           /\ Range(<<e>> \o s) = Range(s) \cup {e}
           /\ IsInjective(s) /\ e \notin Range(s) => IsInjective(<<e>> \o s)
  <1> DEFINE t == <<e>> \o s
  <1>1. Len(s) \in Nat /\ DOMAIN s = 1 .. Len(s)
    BY SMTT(20)
  <1>2. <<e>> \in Seq(S) /\ Len(<<e>>) = 1 /\ <<e>>[1] = e
    BY SMTT(20)
  <1>3. /\ t \in Seq(S) /\ Len(t) = Len(s) + 1
        /\ \A i \in 1 .. Len(s) + 1 : t[i] = IF i <= 1 THEN <<e>>[i] ELSE s[i - 1]
    <2>1. /\ t \in Seq(S) /\ Len(t) = Len(<<e>>) + Len(s)
          /\ \A i \in 1 .. Len(<<e>>) + Len(s) :
                t[i] = IF i <= Len(<<e>>) THEN <<e>>[i] ELSE s[i - Len(<<e>>)]
      BY <1>2, ConcatProperties
    <2>2. 1 + Len(s) = Len(s) + 1
      BY <1>1, SMTT(20)
    <2>. QED  BY <1>2, <2>1, <2>2
  <1>. HIDE DEF t
  <1>4. t[1] = e /\ Head(t) = e /\ t # <<>>
    <2>1. t[1] = e
      BY <1>1, <1>2, <1>3, SMTT(20)
    <2>2. Len(t) # 0 /\ t # <<>>
      BY <1>1, <1>3, EmptySeq, SMTT(20)
    <2>. QED  BY <1>3, <2>1, <2>2, SMTT(20)
  <1>5. \A i \in 1 .. Len(s) : t[i + 1] = s[i]
    <2>. TAKE i \in 1 .. Len(s)
    <2>1. i + 1 \in 1 .. Len(s) + 1 /\ ~(i + 1 <= 1) /\ (i + 1) - 1 = i
      BY <1>1, SMTT(20)
    <2>. QED  BY <1>3, <2>1
  <1>6. DOMAIN t = 1 .. Len(s) + 1
    BY <1>3, SMTT(20)
  <1>7. ASSUME NEW x \in Range(t) PROVE x \in Range(s) \cup {e}
    <2>1. PICK i \in 1 .. Len(s) + 1 : x = t[i]
      BY <1>6 DEF Range
    <2>2. CASE i = 1
      BY <1>4, <2>1, <2>2
    <2>3. CASE i # 1
      <3>1. i - 1 \in 1 .. Len(s) /\ (i - 1) + 1 = i
        BY <1>1, <2>1, <2>3, SMTT(20)
      <3>2. x = s[i - 1]
        BY <1>5, <2>1, <3>1
      <3>. QED  BY <1>1, <3>1, <3>2 DEF Range
    <2>. QED  BY <2>2, <2>3
  <1>8. ASSUME NEW x \in Range(s) \cup {e} PROVE x \in Range(t)
    <2>1. CASE x = e
      BY <1>1, <1>4, <1>6, <2>1, SMTT(20) DEF Range
    <2>2. CASE x # e
      <3>1. PICK i \in 1 .. Len(s) : x = s[i]
        BY <1>1, <1>8, <2>2 DEF Range
      <3>2. i + 1 \in 1 .. Len(s) + 1 /\ x = t[i + 1]
        BY <1>1, <1>5, <3>1, SMTT(20)
      <3>. QED  BY <1>6, <3>2 DEF Range
    <2>. QED  BY <2>1, <2>2
  <1>9. ASSUME IsInjective(s), e \notin Range(s) PROVE IsInjective(t)
    <2>1. \A i \in 1 .. Len(s) : s[i] # e
      BY <1>1, <1>9 DEF Range
    <2>2. \A i, j \in 1 .. Len(s) : s[i] = s[j] => i = j
      BY <1>1, <1>9 DEF IsInjective
    <2>3. \A i \in 2 .. Len(s) + 1 : i - 1 \in 1 .. Len(s) /\ t[i] = s[i - 1]
      <3>. TAKE i \in 2 .. Len(s) + 1
      <3>1. i \in 1 .. Len(s) + 1 /\ ~(i <= 1) /\ i - 1 \in 1 .. Len(s)
        BY <1>1, SMTT(20)
      <3>. QED  BY <1>3, <3>1
    <2>. QED  BY <1>1, <1>4, <1>6, <2>1, <2>2, <2>3, SMTT(20) DEF IsInjective
  <1>. QED  BY <1>3, <1>4, <1>5, <1>7, <1>8, <1>9 DEF t

-----------------------------------------------------------------------------
(* What the operations on the table keep. *)

(* The next more recently used flow is another one that is in the table. *)
LEMMA NewerFacts ==
    ASSUME Table, NEW f \in Range(lru)
    PROVE  Newer(f) \in (Range(lru) \ {f}) \cup {None}
  <1> DEFINE i == Position(lru, f)
  <1>1. lru \in Seq(Keys) /\ \A a, b \in 1 .. Len(lru) : lru[a] = lru[b] => a = b
    BY SMTT(20) DEF Table, IsInjective
  <1>2. i \in 1 .. Len(lru) /\ lru[i] = f
    BY <1>1, PositionFacts
  <1>3. i # 1 => i - 1 \in 1 .. Len(lru) /\ i - 1 # i
    BY <1>1, <1>2, SMTT(20)
  <1>4. i # 1 => lru[i - 1] \in Range(lru) /\ lru[i - 1] # f
    BY <1>1, <1>2, <1>3, RangeFacts, SMTT(20)
  <1>. QED  BY <1>4 DEF Newer

(* The count of a list stays a number of its width. *)
LEMMA CountWraps ==
    ASSUME NEW n \in Int
    PROVE  n % CountMod \in 0 .. CountMod - 1
  <1>1. CountMod \in Nat /\ CountMod > 0
    BY FlowCacheAssumption, SMTT(20)
  <1>. QED  BY <1>1, SMTT(20)

(* Unlinking takes the flow off whichever list has it. *)
LEMMA UnlinkFacts ==
    ASSUME Table, NEW f \in Range(lru), Unlink(f)
    PROVE  /\ uni' \in [{"ip", "other"} -> Seq(Keys)]
           /\ count' \in [{"ip", "other"} -> 0 .. CountMod - 1]
           /\ \A l \in {"ip", "other"} :
                 IsInjective(uni'[l]) /\ Range(uni'[l]) = Range(uni[l]) \ {f}
  <1>1. /\ uni \in [{"ip", "other"} -> Seq(Keys)]
        /\ count \in [{"ip", "other"} -> 0 .. CountMod - 1]
        /\ \A l \in {"ip", "other"} : IsInjective(uni[l])
    BY DEF Table, LinksInTable
  <1>2. \A l \in {"ip", "other"} :
            /\ Remove(uni[l], f) \in Seq(Keys) /\ IsInjective(Remove(uni[l], f))
            /\ Range(Remove(uni[l], f)) = Range(uni[l]) \ {f}
    BY <1>1, RemoveFacts
  <1>3. CASE \E l \in DOMAIN uni : f \in Range(uni[l])
    <2>1. /\ uni' = [l \in {"ip", "other"} |-> Remove(uni[l], f)]
          /\ count' = [count EXCEPT ![UniList(TypeOf[f])] = (@ - 1) % CountMod]
      BY <1>1, <1>3 DEF Unlink
    <2>2. UniList(TypeOf[f]) \in {"ip", "other"}
      BY DEF UniList
    <2>3. (count[UniList(TypeOf[f])] - 1) % CountMod \in 0 .. CountMod - 1
      <3>1. count[UniList(TypeOf[f])] \in 0 .. CountMod - 1
        BY <1>1, <2>2
      <3>2. count[UniList(TypeOf[f])] - 1 \in Int
        BY <3>1, SMTT(20)
      <3>. QED  BY <3>2, CountWraps
    <2>. QED  BY <1>1, <1>2, <2>1, <2>2, <2>3
  <1>4. CASE ~ \E l \in DOMAIN uni : f \in Range(uni[l])
    <2>1. uni' = uni /\ count' = count
      BY <1>4 DEF Unlink
    <2>2. \A l \in {"ip", "other"} : Range(uni[l]) = Range(uni[l]) \ {f}
      BY <1>1, <1>4
    <2>. QED  BY <1>1, <2>1, <2>2
  <1>. QED  BY <1>3, <1>4

(* A flow leaves the table. *)
LEMMA LeaveKeeps ==
    ASSUME Table, NEW f \in Range(lru), Unlink(f),
           flow' = Restrict(flow, DOMAIN flow \ {f}), lru' = Remove(lru, f),
           cursor' \in (Range(lru) \ {f}) \cup {None},
           free' \in Seq(Types \cup {None}), allocated' = Len(lru) - 1 + Len(free')
    PROVE  /\ Table'
           /\ Range(lru') = Range(lru) \ {f} /\ Len(lru') = Len(lru) - 1
           /\ f = Oldest => \A i \in 1 .. Len(lru) - 1 : lru'[i] = lru[i]
           /\ \A g \in Range(lru) \ {f} : flow'[g] = flow[g]
  <1>1. lru \in Seq(Keys) /\ IsInjective(lru) /\ flow \in [Range(lru) -> FlowType]
    BY DEF Table
  <1>2. /\ lru' \in Seq(Keys) /\ IsInjective(lru')
        /\ Range(lru') = Range(lru) \ {f} /\ Len(lru') = Len(lru) - 1
        /\ f = Oldest => \A i \in 1 .. Len(lru) - 1 : lru'[i] = lru[i]
    BY <1>1, RemoveFacts DEF Oldest
  <1>3. /\ flow' \in [Range(lru') -> FlowType]
        /\ \A g \in Range(lru) \ {f} : flow'[g] = flow[g]
    BY <1>1, <1>2 DEF Restrict
  <1>4. /\ uni' \in [{"ip", "other"} -> Seq(Keys)]
        /\ count' \in [{"ip", "other"} -> 0 .. CountMod - 1]
        /\ \A l \in {"ip", "other"} :
              IsInjective(uni'[l]) /\ Range(uni'[l]) = Range(uni[l]) \ {f}
    BY UnlinkFacts
  <1>5. LinksInTable'
    <2>1. \A l \in {"ip", "other"} : Range(uni[l]) \subseteq Range(lru)
      BY DEF Table, LinksInTable
    <2>2. Range(uni["ip"]) \cap Range(uni["other"]) = {}
      BY DEF Table, LinksInTable
    <2>3. Range(uni'["ip"]) \cap Range(uni'["other"]) = {}
      BY <1>4, <2>2
    <2>. QED  BY <1>2, <1>4, <2>1, <2>3 DEF LinksInTable
  <1>6. ClosedReleased'
    BY <1>2, <1>3 DEF ClosedReleased, Table
  <1>. QED  BY <1>2, <1>3, <1>4, <1>5, <1>6 DEF Table

(* Release: it is free afterwards. *)
LEMMA ReleaseKeeps ==
    ASSUME Table, NEW f \in Range(lru), NEW c \in Range(lru) \cup {None}, Release(f, c)
    PROVE  /\ Table'
           /\ Range(lru') = Range(lru) \ {f} /\ Len(lru') = Len(lru) - 1
           /\ free' # <<>>
           /\ f = Oldest => \A i \in 1 .. Len(lru) - 1 : lru'[i] = lru[i]
           /\ \A g \in Range(lru) \ {f} : flow'[g] = flow[g]
  <1>1. f \in Keys /\ TypeOf[f] \in Types \cup {None}
    BY RangeFacts DEF Table, Types
  <1>2. free' \in Seq(Types \cup {None}) /\ Len(free') = Len(free) + 1 /\ free' # <<>>
    BY <1>1, ConsFacts, SMTT(20) DEF Table, Release
  <1>3. cursor' \in (Range(lru) \ {f}) \cup {None}
    BY NewerFacts DEF Release, CursorPast
  <1>4. allocated' = Len(lru) - 1 + Len(free')
    BY <1>2, SMTT(20) DEF Release, Table
  <1>. QED  BY <1>2, <1>3, <1>4, LeaveKeeps DEF Release

(* touch: it is the most recently used one. *)
LEMMA TouchKeeps ==
    ASSUME Table, NEW f \in Range(lru), NEW c \in Range(lru) \cup {None}, Touch(f, c),
           flow' \in [Range(lru) -> FlowType],
           \A g \in Range(lru) : flow'[g].closed => flow'[g].suspended,
           UNCHANGED <<free, allocated, uni, count>>
    PROVE  /\ Table'
           /\ Range(lru') = Range(lru) /\ Len(lru') = Len(lru)
           /\ lru' # <<>> /\ Head(lru') = f /\ lru'[1] = f
           /\ f = Oldest => \A i \in 1 .. Len(lru) - 1 : lru'[i + 1] = lru[i]
  <1> DEFINE s == Remove(lru, f)
  <1>1. lru \in Seq(Keys) /\ IsInjective(lru) /\ f \in Keys /\ Len(lru) \in Nat
    BY RangeFacts DEF Table
  <1>2. /\ s \in Seq(Keys) /\ IsInjective(s)
        /\ Range(s) = Range(lru) \ {f} /\ Len(s) = Len(lru) - 1
        /\ f = Oldest => \A i \in 1 .. Len(lru) - 1 : s[i] = lru[i]
    BY <1>1, RemoveFacts, SMTT(20) DEF Oldest
  <1>. HIDE DEF s
  <1>3. lru' = <<f>> \o s
    BY DEF Touch, s
  <1>4. /\ lru' \in Seq(Keys) /\ IsInjective(lru') /\ Len(lru') = Len(s) + 1
        /\ Range(lru') = Range(s) \cup {f}
        /\ lru' # <<>> /\ Head(lru') = f /\ lru'[1] = f
        /\ \A i \in 1 .. Len(s) : lru'[i + 1] = s[i]
    BY <1>1, <1>2, <1>3, ConsFacts, SMTT(20)
  <1>5. Range(lru') = Range(lru) /\ Len(lru') = Len(lru)
    BY <1>1, <1>2, <1>4, SMTT(20)
  <1>6. cursor' \in Range(lru) \cup {None}
    BY NewerFacts DEF Touch, CursorPast
  <1>7. LinksInTable' /\ ClosedReleased'
    BY <1>5, <1>6 DEF Table, LinksInTable, ClosedReleased
  <1>8. f = Oldest => \A i \in 1 .. Len(lru) - 1 : lru'[i + 1] = lru[i]
    BY <1>1, <1>2, <1>4
  <1>9. Table'
    BY <1>4, <1>5, <1>6, <1>7 DEF Table
  <1>. QED  BY <1>4, <1>5, <1>8, <1>9

(* A flow is taken for a new key; none has it yet. *)
LEMMA TakeKeeps ==
    ASSUME Table, NEW k \in Keys, k \notin Range(lru),
           NEW type, NEW rest \in Seq(Types \cup {None}), Take(k, type, rest),
           allocated' = Len(lru) + 1 + Len(rest)
    PROVE  Table' /\ lru' # <<>> /\ Head(lru') = k
  <1>1. /\ lru \in Seq(Keys) /\ IsInjective(lru) /\ Len(lru) \in Nat
        /\ flow \in [Range(lru) -> FlowType] /\ cursor \in Range(lru) \cup {None}
    BY SMTT(20) DEF Table
  <1>2. lru' = <<k>> \o lru /\ free' = rest /\ cursor' = cursor
    BY DEF Take
  <1>3. /\ lru' \in Seq(Keys) /\ IsInjective(lru') /\ Len(lru') = Len(lru) + 1
        /\ Range(lru') = Range(lru) \cup {k} /\ lru' # <<>> /\ Head(lru') = k
    BY <1>1, <1>2, ConsFacts, SMTT(20)
  <1>4. NewFlow \in FlowType /\ ~NewFlow.closed
    BY DEF NewFlow, FlowType
  <1>5. /\ flow' \in [Range(lru') -> FlowType]
        /\ \A g \in Range(lru') : flow'[g] = IF g = k THEN NewFlow ELSE flow[g]
    BY <1>1, <1>3, <1>4 DEF Take
  <1>6. ClosedReleased'
    BY <1>3, <1>4, <1>5 DEF Table, ClosedReleased
  <1> DEFINE u == UniList(type)
  <1>7. u \in {"ip", "other"}
    BY DEF UniList
  <1>8. /\ uni' = [uni EXCEPT ![u] = <<k>> \o uni[u]]
        /\ count' = [count EXCEPT ![u] = (count[u] + 1) % CountMod]
    BY DEF Take
  <1>. HIDE DEF u
  <1>9. /\ uni \in [{"ip", "other"} -> Seq(Keys)]
        /\ count \in [{"ip", "other"} -> 0 .. CountMod - 1]
        /\ \A l \in {"ip", "other"} : IsInjective(uni[l]) /\ Range(uni[l]) \subseteq Range(lru)
        /\ Range(uni["ip"]) \cap Range(uni["other"]) = {}
    BY DEF Table, LinksInTable
  <1>10. /\ <<k>> \o uni[u] \in Seq(Keys) /\ Range(<<k>> \o uni[u]) = Range(uni[u]) \cup {k}
         /\ IsInjective(<<k>> \o uni[u])
    BY <1>7, <1>9, ConsFacts, SMTT(20)
  <1>11. /\ uni' \in [{"ip", "other"} -> Seq(Keys)]
         /\ \A l \in {"ip", "other"} :
               /\ IsInjective(uni'[l])
               /\ Range(uni'[l]) = IF l = u THEN Range(uni[l]) \cup {k} ELSE Range(uni[l])
    BY <1>7, <1>8, <1>9, <1>10
  <1>12. Range(uni'["ip"]) \cap Range(uni'["other"]) = {}
    BY <1>7, <1>9, <1>11
  <1>13. LinksInTable'
    BY <1>1, <1>2, <1>3, <1>9, <1>11, <1>12 DEF LinksInTable
  <1>14. count' \in [{"ip", "other"} -> 0 .. CountMod - 1]
    <2>1. count[u] \in 0 .. CountMod - 1
      BY <1>7, <1>9
    <2>2. count[u] + 1 \in Int
      BY <2>1, SMTT(20)
    <2>3. (count[u] + 1) % CountMod \in 0 .. CountMod - 1
      BY <2>2, CountWraps
    <2>. QED  BY <1>7, <1>8, <1>9, <2>3
  <1>15. Table'
    BY <1>1, <1>2, <1>3, <1>5, <1>6, <1>11, <1>13, <1>14 DEF Table
  <1>. QED  BY <1>3, <1>15

(* What is known of a flow changes, with or without unlinking it. *)
LEMMA ChangeKeeps ==
    ASSUME Table, UNCHANGED <<lru, free, allocated>>,
           cursor' \in Range(lru) \cup {None},
           flow' \in [Range(lru) -> FlowType],
           \A g \in Range(lru) : flow'[g].closed => flow'[g].suspended,
           UNCHANGED <<uni, count>> \/ \E f \in Range(lru) : Unlink(f)
    PROVE  Table'
  <1>1. ClosedReleased'
    BY DEF ClosedReleased
  <1>2. CASE UNCHANGED <<uni, count>>
    <2>1. LinksInTable'
      BY <1>2 DEF Table, LinksInTable
    <2>. QED  BY <1>1, <1>2, <2>1 DEF Table
  <1>3. CASE \E f \in Range(lru) : Unlink(f)
    <2>1. PICK f \in Range(lru) : Unlink(f)
      BY <1>3
    <2>2. /\ uni' \in [{"ip", "other"} -> Seq(Keys)]
          /\ count' \in [{"ip", "other"} -> 0 .. CountMod - 1]
          /\ \A l \in {"ip", "other"} :
                IsInjective(uni'[l]) /\ Range(uni'[l]) = Range(uni[l]) \ {f}
      BY <2>1, UnlinkFacts
    <2>3. Range(uni'["ip"]) \cap Range(uni'["other"]) = {}
      BY <2>2 DEF Table, LinksInTable
    <2>4. LinksInTable'
      BY <2>2, <2>3 DEF Table, LinksInTable
    <2>. QED  BY <1>1, <2>2, <2>4 DEF Table
  <1>. QED  BY <1>2, <1>3

(* The oldest flow is in the table, unless that is empty. *)
LEMMA OldestFacts ==
    ASSUME Table, lru # <<>>
    PROVE  Oldest \in Range(lru) /\ Len(lru) \in Nat \ {0} /\ Oldest = lru[Len(lru)]
  <1>1. lru \in Seq(Keys) /\ Len(lru) \in Nat \ {0}
    BY RangeFacts DEF Table
  <1>. QED  BY <1>1, RangeFacts, SMTT(20) DEF Oldest
-----------------------------------------------------------------------------
(* The inductive invariant holds at the start, and every action keeps it. *)

(* The constructor: an empty table, nothing in progress. *)
LEMMA InvInit == Init => IInv
  <1>. SUFFICES ASSUME Init PROVE IInv
    OBVIOUS
  <1>1. <<>> \in Seq(Keys) /\ <<>> \in Seq(Types \cup {None}) /\ Len(<<>>) = 0
    BY EmptySeq
  <1>2. Range(<<>>) = {} /\ IsInjective(<<>>)
    BY SMTT(20) DEF Range, IsInjective
  <1>3. Table
    <2>1. LinksInTable
      BY <1>2 DEF Init, LinksInTable
    <2>2. ClosedReleased
      BY <1>2 DEF Init, ClosedReleased
    <2>3. count \in [{"ip", "other"} -> 0 .. CountMod - 1]
      BY FlowCacheAssumption, SMTT(20) DEF Init
    <2>4. flow \in [Range(lru) -> FlowType]
      BY <1>2, SMTT(20) DEF Init
    <2>5. /\ lru \in Seq(Keys) /\ IsInjective(lru) /\ free \in Seq(Types \cup {None})
          /\ allocated = Len(lru) + Len(free) /\ cursor \in Range(lru) \cup {None}
          /\ uni \in [{"ip", "other"} -> Seq(Keys)]
      BY <1>1, <1>2, SMTT(20) DEF Init
    <2>. QED  BY <2>1, <2>2, <2>3, <2>4, <2>5 DEF Table
  <1>4. Locals
    BY FlowCacheAssumption, SMTT(20) DEF Init, Locals
  <1>5. Room /\ CurrentKept /\ Tuned
    BY DEF Init, Room, CurrentKept, Tuned
  <1>. QED  BY <1>3, <1>4, <1>5 DEF IInv

(* allocate: a free flow is taken, a new one is made, or pruning starts. *)
LEMMA AllocateKeeps ==
    ASSUME IInv, pc \in {"idle", "alloc"}, NEW k \in Keys, k \notin Range(lru),
           Allocate(k), key' = k
    PROVE  IInv'
  <1>. USE DEF IInv
  <1>1. /\ free \in Seq(Types \cup {None}) /\ Len(free) \in Nat /\ Len(lru) \in Nat
        /\ allocated = Len(lru) + Len(free) /\ max \in Nat
    BY FlowCacheAssumption, SMTT(20) DEF Table, Locals
  <1>2. ASSUME NEW type, NEW rest \in Seq(Types \cup {None}), Take(k, type, rest),
               allocated' = Len(lru) + 1 + Len(rest)
        PROVE  IInv'
    <2>1. Table' /\ lru' # <<>> /\ Head(lru') = k
      BY <1>2, TakeKeeps
    <2>2. pc' = "process" /\ pruned' = 0 /\ blocks' = 0 /\ ignore' = 0 /\ UNCHANGED <<config, tuning>>
      BY <1>2 DEF Take
    <2>3. Locals'
      BY <2>2 DEF Locals, config, tuning
    <2>4. Room' /\ CurrentKept' /\ Tuned'
      BY <2>1, <2>2 DEF Room, CurrentKept, Tuned
    <2>. QED  BY <2>1, <2>3, <2>4
  <1>3. CASE free # <<>> /\ Take(k, Head(free), Tail(free)) /\ UNCHANGED allocated
    <2>1. Tail(free) \in Seq(Types \cup {None}) /\ Len(Tail(free)) = Len(free) - 1
      BY <1>1, <1>3, SMTT(20)
    <2>2. allocated' = Len(lru) + 1 + Len(Tail(free))
      BY <1>1, <1>3, <2>1, SMTT(20)
    <2>. QED  BY <1>2, <1>3, <2>1, <2>2
  <1>4. CASE free = <<>> /\ allocated < max /\ Take(k, None, free) /\ allocated' = allocated + 1
    <2>1. allocated' = Len(lru) + 1 + Len(free)
      BY <1>1, <1>4, SMTT(20)
    <2>. QED  BY <1>1, <1>2, <1>4, <2>1
  <1>5. CASE /\ free = <<>> /\ allocated >= max
             /\ pc' = "stale"
             /\ UNCHANGED <<table, config, loops, tuning>>
    <2>1. Table'
      BY <1>5 DEF Table, table, LinksInTable, ClosedReleased
    <2>2. Locals'
      BY <1>5 DEF Locals, config, loops, tuning
    <2>3. Len(free) = 0
      BY <1>5, EmptySeq
    <2>4. Len(lru) >= max
      BY <1>1, <1>5, <2>3, SMTT(20)
    <2>5. Room'
      BY <1>5, <2>4 DEF Room, Locals, table, config, loops
    <2>6. CurrentKept' /\ Tuned'
      BY <1>5 DEF CurrentKept, Tuned
    <2>. QED  BY <2>1, <2>2, <2>5, <2>6
  <1>. QED  BY <1>3, <1>4, <1>5 DEF Allocate

(* process finds the flow and touches it, or goes to allocate one. *)
LEMMA PacketKeeps ==
    ASSUME IInv, NEW k \in Keys, NEW new \in BOOLEAN, Packet(k, new)
    PROVE  IInv'
  <1>. USE DEF IInv
  <1>1. pc = "idle" /\ key' = k
    BY DEF Packet
  <1>2. CASE k \notin Range(lru) /\ Allocate(k)
    BY <1>1, <1>2, AllocateKeeps
  <1>3. CASE /\ k \in Range(lru) /\ new
             /\ Release(k, cursor)
             /\ pc' = "alloc"
             /\ UNCHANGED <<config, loops, tuning>>
    <2>1. Table' /\ Range(lru') = Range(lru) \ {k}
      BY <1>3, ReleaseKeeps DEF Table
    <2>2. Locals'
      BY <1>1, <1>3 DEF Locals, config, loops, tuning
    <2>3. Room' /\ CurrentKept' /\ Tuned'
      BY <1>1, <1>3, <2>1 DEF Room, CurrentKept, Tuned
    <2>. QED  BY <2>1, <2>2, <2>3
  <1>4. CASE /\ k \in Range(lru) /\ ~new
             /\ Touch(k, cursor)
             /\ flow' = [flow EXCEPT ![k].old = FALSE]
             /\ pc' = "process"
             /\ UNCHANGED <<free, allocated, uni, count, config, loops, tuning>>
    <2>1. /\ flow' \in [Range(lru) -> FlowType]
          /\ \A g \in Range(lru) : flow'[g].closed => flow'[g].suspended
      BY <1>4 DEF Table, ClosedReleased, FlowType
    <2>2. Table' /\ lru' # <<>> /\ Head(lru') = k
      BY <1>4, <2>1, TouchKeeps DEF Table
    <2>3. Locals'
      BY <1>1, <1>4 DEF Locals, config, loops, tuning
    <2>4. Room' /\ CurrentKept' /\ Tuned'
      BY <1>1, <1>4, <2>2 DEF Room, CurrentKept, Tuned
    <2>. QED  BY <2>2, <2>3, <2>4
  <1>. QED  BY <1>2, <1>3, <1>4 DEF Packet

(* prune_stale releases the oldest flow. *)
LEMMA PruneStaleKeeps == IInv /\ PruneStale => IInv'
  <1>. SUFFICES ASSUME IInv, PruneStale PROVE IInv'
    OBVIOUS
  <1>. USE DEF IInv
  <1>1. Oldest \in Range(lru)
    BY OldestFacts DEF PruneStale
  <1>2. Table' /\ Range(lru') = Range(lru) \ {Oldest} /\ free' # <<>>
    BY <1>1, ReleaseKeeps DEF PruneStale
  <1>3. Locals'
    BY SMTT(20) DEF Locals, PruneStale, config, tuning
  <1>4. Room' /\ CurrentKept' /\ Tuned'
    BY <1>2, SMTT(20) DEF Room, CurrentKept, Tuned, PruneStale, Locals
  <1>. QED  BY <1>2, <1>3, <1>4

(* prune_stale is done: allocate has its flow or goes on to prune_unis. *)
LEMMA StaleDoneKeeps == IInv /\ StaleDone => IInv'
  <1>. SUFFICES ASSUME IInv, StaleDone PROVE IInv'
    OBVIOUS
  <1>. USE DEF IInv
  <1>1. cursor' \in Range(lru) \cup {None}
    BY OldestFacts DEF StaleDone
  <1>2. Table'
    BY <1>1, ChangeKeeps DEF StaleDone, Table, ClosedReleased
  <1>3. Locals'
    BY DEF Locals, StaleDone, config, tuning
  <1>4. Room' /\ CurrentKept' /\ Tuned'
    BY SMTT(20) DEF Room, CurrentKept, Tuned, StaleDone, Locals, config
  <1>. QED  BY <1>2, <1>3, <1>4

(* prune_unis releases a one-sided flow, or gives up. *)
LEMMA PruneUnisKeeps == IInv /\ PruneUnis => IInv'
  <1>. SUFFICES ASSUME IInv, PruneUnis PROVE IInv'
    OBVIOUS
  <1>. USE DEF IInv
  <1> DEFINE l == UniList(TypeOf[key])
  <1>1. l \in {"ip", "other"}
    BY DEF UniList
  <1>2. pc = "unis" /\ UNCHANGED <<config, key, pruned, blocks, tuning>>
    BY DEF PruneUnis
  <1>3. \/ /\ \E f \in Range(uni[l]) : Release(f, cursor)
           /\ pc' = "take" /\ UNCHANGED ignore
        \/ pc' = "excess" /\ ignore' = Len(lru) /\ UNCHANGED table
    BY DEF PruneUnis
  <1>. HIDE DEF l
  <1>4. Len(lru) \in Nat
    BY SMTT(20) DEF Table
  <1>5. Locals'
    BY <1>2, <1>3, <1>4 DEF Locals, config, tuning
  <1>6. CurrentKept' /\ Tuned'
    BY <1>3 DEF CurrentKept, Tuned
  <1>7. CASE \E f \in Range(uni[l]) : Release(f, cursor) /\ pc' = "take"
    <2>1. PICK f \in Range(uni[l]) : Release(f, cursor) /\ pc' = "take"
      BY <1>7
    <2>2. f \in Range(lru) /\ cursor \in Range(lru) \cup {None}
      BY <1>1 DEF Table, LinksInTable
    <2>3. Table' /\ Range(lru') = Range(lru) \ {f} /\ free' # <<>>
      BY <2>1, <2>2, ReleaseKeeps
    <2>4. Room'
      BY <1>2, <2>1, <2>3 DEF Room
    <2>. QED  BY <1>5, <1>6, <2>3, <2>4
  <1>8. CASE pc' = "excess" /\ UNCHANGED table
    <2>1. Table'
      BY <1>8 DEF Table, table, LinksInTable, ClosedReleased
    <2>2. Room'
      BY <1>2, <1>8 DEF Room, table, config
    <2>. QED  BY <1>5, <1>6, <2>1, <2>2
  <1>. QED  BY <1>3, <1>7, <1>8

(* prune_excess releases the oldest flow it may take, or passes it over. *)
LEMMA PruneExcessKeeps == IInv /\ PruneExcess => IInv'
  <1>. SUFFICES ASSUME IInv, PruneExcess PROVE IInv'
    OBVIOUS
  <1>. USE DEF IInv
  <1>1. /\ pc = "excess" /\ pc' = pc /\ UNCHANGED <<config, key, tuning>>
        /\ ignore' = IF ignore > 0 THEN ignore - 1 ELSE 0
        /\ Len(lru) > max - 1 /\ Len(lru) > blocks
    BY DEF PruneExcess
  <1>2. max \in Nat \ {0, 1} /\ Len(lru) \in Nat /\ blocks \in Nat /\ lru # <<>>
    <2>1. max \in Nat \ {0, 1} /\ Len(lru) \in Nat /\ blocks \in Nat
      BY FlowCacheAssumption, SMTT(20) DEF Table, Locals
    <2>. QED  BY <1>1, <2>1, EmptySeq, SMTT(20)
  <1>3. Oldest \in Range(lru)
    BY <1>2, OldestFacts
  <1>4. CASE /\ Touch(Oldest, Oldest)
             /\ blocks' = blocks + (IF flow[Oldest].blocked THEN 1 ELSE 0)
             /\ UNCHANGED <<flow, free, allocated, uni, count, pruned>>
    <2>1. Table' /\ Range(lru') = Range(lru) /\ Len(lru') = Len(lru)
      BY <1>3, <1>4, TouchKeeps DEF Table, ClosedReleased
    <2>2. Locals'
      BY <1>1, <1>4, SMTT(20) DEF Locals, config, tuning
    <2>3. Room' /\ CurrentKept' /\ Tuned'
      BY <1>1, <1>4, <2>1 DEF Room, CurrentKept, Tuned, config
    <2>. QED  BY <2>1, <2>2, <2>3
  <1>5. CASE Release(Oldest, Oldest) /\ pruned' = pruned + 1 /\ UNCHANGED blocks
    <2>1. Table' /\ Range(lru') = Range(lru) \ {Oldest} /\ free' # <<>>
      BY <1>3, <1>5, ReleaseKeeps
    <2>2. Locals'
      BY <1>1, <1>5, SMTT(20) DEF Locals, config, tuning
    <2>3. pruned' # 0
      BY <1>5, SMTT(20) DEF Locals
    <2>4. Room' /\ CurrentKept' /\ Tuned'
      BY <1>1, <2>1, <2>3 DEF Room, CurrentKept, Tuned
    <2>. QED  BY <2>1, <2>2, <2>4
  <1>. QED  BY <1>4, <1>5 DEF PruneExcess

(* prune_one spares the flow at the front, and makes room. *)
LEMMA PruneOneKeeps ==
    ASSUME Table, PruneOne
    PROVE  /\ Table' /\ Range(lru') \subseteq Range(lru)
           /\ Len(lru) > 1 => lru' # <<>> /\ Head(lru') = Head(lru) /\ free' # <<>>
           /\ Len(lru) <= 1 => UNCHANGED table
  <1>1. lru \in Seq(Keys) /\ Len(lru) \in Nat
    BY SMTT(20) DEF Table
  <1>2. CASE Len(lru) > 1
    <2>1. lru # <<>>
      BY <1>1, <1>2, EmptySeq, SMTT(20)
    <2>2. Oldest \in Range(lru)
      BY <2>1, OldestFacts
    <2>3. /\ Table' /\ Range(lru') = Range(lru) \ {Oldest} /\ Len(lru') = Len(lru) - 1
          /\ free' # <<>> /\ \A i \in 1 .. Len(lru) - 1 : lru'[i] = lru[i]
      BY <1>2, <2>2, ReleaseKeeps DEF PruneOne
    <2>4. lru'[1] = lru[1] /\ Len(lru') > 0 /\ lru' \in Seq(Keys)
      BY <1>1, <1>2, <2>3, SMTT(20) DEF Table
    <2>5. lru' # <<>> /\ Head(lru') = lru'[1] /\ Head(lru) = lru[1]
      BY <1>1, <2>1, <2>4, EmptySeq, SMTT(20)
    <2>. QED  BY <1>1, <1>2, <2>3, <2>4, <2>5, SMTT(20)
  <1>3. CASE Len(lru) <= 1
    <2>1. UNCHANGED table
      BY <1>1, <1>3, SMTT(20) DEF PruneOne
    <2>2. Table' /\ Range(lru') = Range(lru)
      BY <2>1 DEF Table, table, LinksInTable, ClosedReleased
    <2>. QED  BY <1>1, <1>3, <2>1, <2>2, SMTT(20)
  <1>. QED  BY <1>1, <1>2, <1>3, SMTT(20)

(* prune_excess is done, with prune_one when it has found nothing. *)
LEMMA ExcessDoneKeeps == IInv /\ ExcessDone => IInv'
  <1>. SUFFICES ASSUME IInv, ExcessDone PROVE IInv'
    OBVIOUS
  <1>. USE DEF IInv
  <1>1. /\ pc = "excess" /\ pc' = "take" /\ UNCHANGED <<config, key, loops, tuning>>
        /\ Len(lru) \in Nat /\ max \in Nat \ {0, 1} /\ pruned \in Nat
    BY FlowCacheAssumption, SMTT(20) DEF ExcessDone, Locals, Table
  <1>2. Locals'
    BY <1>1 DEF Locals, config, loops, tuning
  <1>3. CurrentKept' /\ Tuned'
    BY <1>1 DEF CurrentKept, Tuned
  <1>4. CASE pruned = 0 /\ Len(lru) > max - 1
    <2>1. PruneOne /\ Len(lru) > 1
      BY <1>1, <1>4, SMTT(20) DEF ExcessDone
    <2>2. Table' /\ Range(lru') \subseteq Range(lru) /\ free' # <<>>
      BY <2>1, PruneOneKeeps
    <2>3. Room'
      BY <1>1, <2>2 DEF Room
    <2>. QED  BY <1>2, <1>3, <2>2, <2>3
  <1>5. CASE ~(pruned = 0 /\ Len(lru) > max - 1)
    <2>1. UNCHANGED table
      BY <1>5 DEF ExcessDone
    <2>2. Table'
      BY <2>1 DEF Table, table, LinksInTable, ClosedReleased
    <2>3. pruned # 0
      BY <1>1, <1>5, SMTT(20) DEF Room
    <2>4. Room'
      BY <1>1, <2>1, <2>3 DEF Room, table
    <2>. QED  BY <1>2, <1>3, <2>2, <2>4
  <1>. QED  BY <1>4, <1>5

(* allocate takes the flow that pruning has freed. *)
LEMMA TakePrunedKeeps == IInv /\ TakePruned => IInv'
  <1>. SUFFICES ASSUME IInv, TakePruned PROVE IInv'
    OBVIOUS
  <1>. USE DEF IInv
  <1>1. /\ key \in Keys /\ key \notin Range(lru) /\ free # <<>> /\ key' = key
        /\ Take(key, Head(free), Tail(free)) /\ allocated' = allocated
    BY DEF TakePruned, Room
  <1>2. /\ free \in Seq(Types \cup {None}) /\ allocated = Len(lru) + Len(free)
        /\ Len(lru) \in Nat /\ Len(free) \in Nat
    BY SMTT(20) DEF Table
  <1>3. Tail(free) \in Seq(Types \cup {None}) /\ Len(Tail(free)) = Len(free) - 1
    BY <1>1, <1>2, SMTT(20)
  <1>4. allocated' = Len(lru) + 1 + Len(Tail(free))
    BY <1>1, <1>2, <1>3, SMTT(20)
  <1>5. Table' /\ lru' # <<>> /\ Head(lru') = key
    BY <1>1, <1>3, <1>4, TakeKeeps
  <1>6. pc' = "process" /\ pruned' = 0 /\ blocks' = 0 /\ ignore' = 0 /\ UNCHANGED <<config, tuning>>
    BY <1>1 DEF Take
  <1>7. Locals'
    BY <1>1, <1>6 DEF Locals, config, tuning, TakePruned
  <1>8. Room' /\ CurrentKept' /\ Tuned'
    BY <1>1, <1>5, <1>6 DEF Room, CurrentKept, Tuned
  <1>. QED  BY <1>5, <1>7, <1>8

(* preemptive_cleanup prunes before the packet is processed. *)
LEMMA PreemptKeeps == IInv /\ Preempt => IInv'
  <1>. SUFFICES ASSUME IInv, Preempt PROVE IInv'
    OBVIOUS
  <1>. USE DEF IInv
  <1>1. pc = "process" /\ PruneOne /\ UNCHANGED <<config, pc, key, loops, tuning>>
    BY DEF Preempt
  <1>2. /\ Table' /\ Len(lru) \in Nat
        /\ Len(lru) > 1 => lru' # <<>> /\ Head(lru') = Head(lru)
        /\ Len(lru) <= 1 => lru' = lru
    <2>1. Len(lru) \in Nat
      BY SMTT(20) DEF Table
    <2>. QED  BY <1>1, <2>1, PruneOneKeeps DEF table
  <1>3. Locals'
    BY <1>1 DEF Locals, config, loops, tuning
  <1>4. Room' /\ CurrentKept' /\ Tuned'
    BY <1>1, <1>2, SMTT(20) DEF Room, CurrentKept, Tuned
  <1>. QED  BY <1>2, <1>3, <1>4

(* The packet of the flow at hand is inspected, which may end the flow. *)
LEMMA InspectKeeps ==
    ASSUME IInv, NEW b \in BOOLEAN, NEW d \in BOOLEAN, NEW c \in BOOLEAN, NEW s \in BOOLEAN,
           Inspect(b, d, c, s)
    PROVE  IInv'
  <1>. USE DEF IInv
  <1> DEFINE f == [flow[key] EXCEPT !.both = @ \/ b, !.blocked = @ \/ d,
                                    !.closed = @ \/ c, !.suspended = @ \/ s]
  <1>1. pc = "process" /\ pc' = "timeout" /\ key' = None /\ UNCHANGED <<config, loops, tuning>>
    BY DEF Inspect
  <1>2. key \in Range(lru) /\ flow \in [Range(lru) -> FlowType] /\ cursor \in Range(lru) \cup {None}
    <2>1. lru \in Seq(Keys) /\ lru # <<>> /\ Head(lru) = key /\ 1 \in 1 .. Len(lru)
      BY <1>1, EmptySeq, SMTT(20) DEF Table, CurrentKept
    <2>2. lru[1] = key
      BY <2>1, SMTT(20)
    <2>. QED  BY <2>1, <2>2, RangeFacts DEF Table
  <1>3. f \in FlowType
    BY <1>2 DEF FlowType
  <1>4. Locals'
    BY <1>1 DEF Locals, config, loops, tuning
  <1>5. Room' /\ CurrentKept' /\ Tuned'
    BY <1>1 DEF Room, CurrentKept, Tuned
  <1>6. CASE f.closed /\ ~f.suspended
    <2>1. Release(key, cursor)
      BY <1>6 DEF Inspect
    <2>2. Table'
      BY <1>2, <2>1, ReleaseKeeps
    <2>. QED  BY <1>4, <1>5, <2>2
  <1>7. CASE ~(f.closed /\ ~f.suspended)
    <2>1. /\ flow' = [flow EXCEPT ![key] = f]
          /\ Unlink(key) \/ UNCHANGED <<uni, count>>
          /\ UNCHANGED <<lru, cursor, free, allocated>>
      BY <1>7 DEF Inspect
    <2>. HIDE DEF f
    <2>2. /\ flow' \in [Range(lru) -> FlowType]
          /\ \A g \in Range(lru) : flow'[g].closed => flow'[g].suspended
      BY <1>2, <1>3, <1>7, <2>1 DEF Table, ClosedReleased
    <2>3. Table'
      BY <1>2, <2>1, <2>2, ChangeKeeps
    <2>. QED  BY <1>4, <1>5, <2>3
  <1>. QED  BY <1>6, <1>7

(* The last suspended packet of a flow comes back. *)
LEMMA OnloadKeeps ==
    ASSUME IInv, NEW f \in Keys, Onload(f)
    PROVE  IInv'
  <1>. USE DEF IInv
  <1>1. pc = "idle" /\ f \in Range(lru) /\ UNCHANGED <<config, pc, key, loops, tuning>>
    BY DEF Onload
  <1>2. Locals'
    BY <1>1 DEF Locals, config, loops, tuning
  <1>3. Room' /\ CurrentKept' /\ Tuned'
    BY <1>1 DEF Room, CurrentKept, Tuned
  <1>4. CASE flow[f].closed
    <2>1. Table'
      BY <1>1, <1>4, ReleaseKeeps DEF Onload, Table
    <2>. QED  BY <1>2, <1>3, <2>1
  <1>5. CASE ~flow[f].closed
    <2>1. /\ flow' = [flow EXCEPT ![f].suspended = FALSE]
          /\ UNCHANGED <<lru, cursor, free, allocated, uni, count>>
      BY <1>5 DEF Onload
    <2>2. /\ flow' \in [Range(lru) -> FlowType]
          /\ \A g \in Range(lru) : flow'[g].closed => flow'[g].suspended
      BY <1>1, <1>5, <2>1 DEF Table, ClosedReleased, FlowType
    <2>3. Table'
      BY <2>1, <2>2, ChangeKeeps DEF Table
    <2>. QED  BY <1>2, <1>3, <2>3
  <1>. QED  BY <1>4, <1>5

(* The time-out of a flow passes. *)
LEMMA AgeKeeps ==
    ASSUME IInv, NEW f \in Keys, Age(f)
    PROVE  IInv'
  <1>. USE DEF IInv
  <1>1. /\ pc = "idle" /\ flow' = [flow EXCEPT ![f].old = TRUE]
        /\ UNCHANGED <<lru, cursor, free, allocated, uni, count, config, pc, key, loops, tuning>>
    BY DEF Age
  <1>2. /\ flow' \in [Range(lru) -> FlowType]
        /\ \A g \in Range(lru) : flow'[g].closed => flow'[g].suspended
    BY <1>1 DEF Table, ClosedReleased, FlowType
  <1>3. Table'
    BY <1>1, <1>2, ChangeKeeps DEF Table
  <1>4. Locals'
    BY <1>1 DEF Locals, config, loops, tuning
  <1>5. Room' /\ CurrentKept' /\ Tuned'
    BY <1>1 DEF Room, CurrentKept, Tuned
  <1>. QED  BY <1>3, <1>4, <1>5

(* The flow timeout goes on with is in the table. *)
LEMMA AtFacts ==
    ASSUME Table
    PROVE  At \in Range(lru) \cup {None}
  <1>. QED  BY OldestFacts DEF At, Table

(* timeout skips a flow, releases it, or ends. *)
LEMMA TimeoutKeeps == IInv /\ (TimeoutSkip \/ TimeoutRelease \/ TimeoutDone) => IInv'
  <1>. SUFFICES ASSUME IInv, TimeoutSkip \/ TimeoutRelease \/ TimeoutDone PROVE IInv'
    OBVIOUS
  <1>. USE DEF IInv
  <1>1. pc = "timeout" /\ pc' \in {"idle", "timeout"} /\ UNCHANGED <<config, key, loops, tuning>>
    BY DEF TimeoutSkip, TimeoutRelease, TimeoutDone
  <1>2. Locals'
    BY <1>1 DEF Locals, config, loops, tuning
  <1>3. Room' /\ CurrentKept' /\ Tuned'
    BY <1>1 DEF Room, CurrentKept, Tuned
  <1>4. At \in Range(lru) \cup {None}
    BY AtFacts
  <1>5. CASE TimeoutRelease
    <2>1. Table'
      BY <1>4, <1>5, ReleaseKeeps DEF TimeoutRelease
    <2>. QED  BY <1>2, <1>3, <2>1
  <1>6. CASE TimeoutSkip \/ TimeoutDone
    <2>1. cursor' \in Range(lru) \cup {None}
      BY <1>4, <1>6, NewerFacts DEF TimeoutSkip, TimeoutDone
    <2>2. UNCHANGED <<flow, lru, free, allocated, uni, count>>
      BY <1>6 DEF TimeoutSkip, TimeoutDone
    <2>3. Table'
      BY <2>1, <2>2, ChangeKeeps DEF Table, ClosedReleased
    <2>. QED  BY <1>2, <1>3, <2>3
  <1>. QED  BY <1>5, <1>6

(* tune_resources starts, deletes a free flow, or goes to its next mode. *)
LEMMA TuneKeeps == IInv /\ (TuneStart \/ DeleteFree \/ NextMode) => IInv'
  <1>. SUFFICES ASSUME IInv, TuneStart \/ DeleteFree \/ NextMode PROVE IInv'
    OBVIOUS
  <1>. USE DEF IInv
  <1>1. /\ Len(lru) \in Nat /\ free \in Seq(Types \cup {None}) /\ Len(free) \in Nat
        /\ allocated = Len(lru) + Len(free) /\ max \in Nat
    BY FlowCacheAssumption, SMTT(20) DEF Table, Locals
  <1>2. CASE TuneStart
    <2>1. UNCHANGED table
      BY <1>2 DEF TuneStart
    <2>2. Table'
      BY <2>1 DEF Table, table, LinksInTable, ClosedReleased
    <2>3. todo' \in Nat
      BY <1>1, <1>2, FlowCacheAssumption, SMTT(20) DEF TuneStart
    <2>4. Locals'
      BY <1>2, <2>3 DEF TuneStart, Locals, config, loops
    <2>5. Room' /\ CurrentKept' /\ Tuned'
      BY <1>1, <1>2, SMTT(20) DEF TuneStart, Room, CurrentKept, Tuned, Locals, table
    <2>. QED  BY <2>2, <2>4, <2>5
  <1>3. CASE DeleteFree
    <2>1. Tail(free) \in Seq(Types \cup {None}) /\ Len(Tail(free)) = Len(free) - 1
      BY <1>1, <1>3, SMTT(20) DEF DeleteFree
    <2>2. allocated' = Len(lru) + Len(free')
      BY <1>1, <1>3, <2>1, SMTT(20) DEF DeleteFree
    <2>3. Table'
      BY <1>3, <2>1, <2>2 DEF DeleteFree, Table, LinksInTable, ClosedReleased
    <2>4. Locals'
      BY <1>3, SMTT(20) DEF DeleteFree, Locals, config, loops
    <2>5. Room' /\ CurrentKept' /\ Tuned'
      BY <1>3 DEF DeleteFree, Room, CurrentKept, Tuned
    <2>. QED  BY <2>3, <2>4, <2>5
  <1>4. CASE NextMode
    <2>1. UNCHANGED table
      BY <1>4 DEF NextMode
    <2>2. Table'
      BY <2>1 DEF Table, table, LinksInTable, ClosedReleased
    <2>3. Locals'
      BY <1>1, <1>4, SMTT(20) DEF NextMode, Locals, config, loops
    <2>4. Room' /\ CurrentKept'
      BY <1>4 DEF NextMode, Room, CurrentKept
    <2>5. Tuned'
      <3>1. CASE pc' = "idle"
        BY <3>1 DEF Tuned
      <3>2. CASE mode' = mode + 1 /\ check' = Len(lru) /\ UNCHANGED <<pc, todo>>
        <4>1. mode = 2 => check = 0 /\ mode \in Nat
          BY <1>4, <3>2, SMTT(20) DEF NextMode
        <4>2. mode = 2 => \A i \in 1 .. Len(lru) : flow[lru[i]].blocked
          BY <1>1, <1>4, <4>1, SMTT(20) DEF Tuned, NextMode
        <4>3. mode \in 0 .. 3
          BY DEF Locals
        <4>. QED  BY <1>1, <2>1, <3>2, <4>2, <4>3, SMTT(20) DEF Tuned, table
      <3>. QED  BY <1>4, <3>1, <3>2 DEF NextMode
    <2>. QED  BY <2>2, <2>3, <2>4, <2>5
  <1>. QED  BY <1>2, <1>3, <1>4

(* delete_active_flows deletes the oldest flow or spares it. *)
LEMMA DeleteActiveKeeps == IInv /\ DeleteActive => IInv'
  <1>. SUFFICES ASSUME IInv, DeleteActive PROVE IInv'
    OBVIOUS
  <1>. USE DEF IInv
  <1>1. /\ pc = "tune" /\ mode > 0 /\ todo > 0 /\ check > 0 /\ check' = check - 1
        /\ UNCHANGED <<config, key, loops, mode>>
    BY DEF DeleteActive
  <1>2. /\ lru \in Seq(Keys) /\ Len(lru) \in Nat /\ check \in Nat /\ check <= Len(lru)
        /\ lru # <<>> /\ flow \in [Range(lru) -> FlowType] /\ free \in Seq(Types \cup {None})
        /\ allocated = Len(lru) + Len(free) /\ Len(free) \in Nat /\ mode \in 0 .. 3
    <2>1. /\ lru \in Seq(Keys) /\ Len(lru) \in Nat /\ flow \in [Range(lru) -> FlowType]
          /\ free \in Seq(Types \cup {None}) /\ allocated = Len(lru) + Len(free)
          /\ Len(free) \in Nat
      BY SMTT(20) DEF Table
    <2>2. check \in Nat /\ check <= Len(lru) /\ mode \in 0 .. 3
      BY <1>1 DEF Locals, Tuned
    <2>. QED  BY <1>1, <2>1, <2>2, EmptySeq, SMTT(20)
  <1>3. Oldest \in Range(lru) /\ Oldest = lru[Len(lru)]
    BY <1>2, OldestFacts
  <1>4. Room' /\ CurrentKept'
    BY <1>1 DEF DeleteActive, Room, CurrentKept
  <1>5. CASE Spared(Oldest)
    <2>1. Touch(Oldest, Oldest) /\ UNCHANGED <<flow, free, allocated, uni, count, pc, todo>>
      BY <1>5 DEF DeleteActive
    <2>2. /\ Table' /\ Range(lru') = Range(lru) /\ Len(lru') = Len(lru) /\ lru'[1] = Oldest
          /\ \A i \in 1 .. Len(lru) - 1 : lru'[i + 1] = lru[i]
      BY <1>2, <1>3, <2>1, TouchKeeps DEF Table, ClosedReleased
    <2>3. Locals'
      BY <1>1, <2>1, SMTT(20) DEF Locals, config, loops
    <2>4. Tuned'
      <3>1. mode # 3 /\ (mode = 2 => flow[Oldest].blocked)
        BY <1>5, SMTT(20) DEF Spared
      <3>2. ASSUME mode = 2, NEW i \in 1 .. Len(lru) - check + 1
            PROVE  flow[lru'[i]].blocked
        <4>1. CASE i = 1
          BY <2>2, <3>1, <3>2, <4>1
        <4>2. CASE i # 1
          <5>1. i - 1 \in 1 .. Len(lru) - check /\ i - 1 \in 1 .. Len(lru) - 1
            BY <1>1, <1>2, <4>2, SMTT(20)
          <5>2. (i - 1) + 1 = i
            BY <1>2, SMTT(20)
          <5>3. lru'[i] = lru[i - 1]
            BY <2>2, <5>1, <5>2
          <5>. QED  BY <1>1, <3>2, <5>1, <5>3 DEF Tuned
        <4>. QED  BY <4>1, <4>2
      <3>3. Len(lru') - check' = Len(lru) - check + 1
        BY <1>1, <1>2, <2>2, SMTT(20)
      <3>4. check' <= Len(lru')
        BY <1>1, <1>2, <2>2, SMTT(20)
      <3>. QED  BY <1>1, <2>1, <3>1, <3>2, <3>3, <3>4, SMTT(20) DEF Tuned
    <2>. QED  BY <1>4, <2>2, <2>3, <2>4
  <1>6. CASE ~Spared(Oldest)
    <2>1. /\ flow' = Restrict(flow, DOMAIN flow \ {Oldest}) /\ allocated' = allocated - 1
          /\ Unlink(Oldest) /\ cursor' = Newer(Oldest) /\ lru' = Remove(lru, Oldest)
          /\ todo' = todo - 1 /\ free' = free /\ pc' \in {pc, "undefined"}
      BY <1>6 DEF DeleteActive
    <2>2. allocated' = Len(lru) - 1 + Len(free')
      BY <1>2, <2>1, SMTT(20)
    <2>3. cursor' \in (Range(lru) \ {Oldest}) \cup {None}
      BY <1>3, <2>1, NewerFacts
    <2>4. /\ Table' /\ Range(lru') = Range(lru) \ {Oldest} /\ Len(lru') = Len(lru) - 1
          /\ \A i \in 1 .. Len(lru) - 1 : lru'[i] = lru[i]
          /\ \A g \in Range(lru) \ {Oldest} : flow'[g] = flow[g]
      BY <1>2, <1>3, <2>1, <2>2, <2>3, LeaveKeeps
    <2>5. Locals'
      BY <1>1, <2>1, SMTT(20) DEF Locals, config, loops
    <2>6. \A i \in 1 .. Len(lru') : flow'[lru'[i]] = flow[lru[i]]
      <3>. TAKE i \in 1 .. Len(lru')
      <3>1. i \in 1 .. Len(lru) - 1 /\ lru'[i] \in Range(lru') /\ lru'[i] = lru[i]
        <4>1. lru' \in Seq(Keys)
          BY <2>4 DEF Table
        <4>. QED  BY <2>4, <4>1, RangeFacts
      <3>. QED  BY <2>4, <3>1
    <2>7. Tuned'
      <3>1. Len(lru') - check' = Len(lru) - check /\ check' <= Len(lru')
        BY <1>1, <1>2, <2>4, SMTT(20)
      <3>2. \A i \in 1 .. Len(lru) - check : i \in 1 .. Len(lru')
        BY <1>1, <1>2, <2>4, SMTT(20)
      <3>3. \A i \in 1 .. Len(lru') : i \in 1 .. Len(lru)
        BY <1>2, <2>4, SMTT(20)
      <3>4. mode = 2 => \A i \in 1 .. Len(lru') - check' : flow'[lru'[i]].blocked
        BY <1>1, <2>6, <3>1, <3>2 DEF Tuned
      <3>5. mode = 3 => \A i \in 1 .. Len(lru') : flow'[lru'[i]].blocked
        BY <1>1, <2>6, <3>3 DEF Tuned
      <3>. QED  BY <1>1, <3>1, <3>4, <3>5, SMTT(20) DEF Tuned
    <2>. QED  BY <1>4, <2>4, <2>5, <2>7
  <1>. QED  BY <1>5, <1>6

(* purge empties the table flow by flow. *)
LEMMA PurgeKeeps == IInv /\ Purge => IInv'
  <1>. SUFFICES ASSUME IInv, Purge PROVE IInv'
    OBVIOUS
  <1>. USE DEF IInv
  <1>1. pc = "purge" /\ pc' \in {"purge", "done"} /\ UNCHANGED <<config, key, loops, tuning>>
    BY DEF Purge
  <1>2. Locals'
    BY <1>1 DEF Locals, config, loops, tuning
  <1>3. Room' /\ CurrentKept' /\ Tuned'
    BY <1>1 DEF Room, CurrentKept, Tuned
  <1>4. CASE lru # <<>> /\ Release(Oldest, Oldest)
    <2>1. Table'
      BY <1>4, OldestFacts, ReleaseKeeps
    <2>. QED  BY <1>2, <1>3, <2>1
  <1>5. CASE /\ lru = <<>> /\ free # <<>> /\ free' = Tail(free) /\ allocated' = allocated - 1
             /\ UNCHANGED <<flow, lru, cursor, uni, count>>
    <2>1. /\ free \in Seq(Types \cup {None}) /\ Len(free) \in Nat /\ Len(lru) \in Nat
          /\ allocated = Len(lru) + Len(free)
      BY SMTT(20) DEF Table
    <2>2. free' \in Seq(Types \cup {None}) /\ Len(free') = Len(free) - 1
      BY <1>5, <2>1, SMTT(20)
    <2>3. allocated' = Len(lru) + Len(free')
      BY <1>5, <2>1, <2>2, SMTT(20)
    <2>4. Table'
      BY <1>5, <2>2, <2>3 DEF Table, LinksInTable, ClosedReleased
    <2>. QED  BY <1>2, <1>3, <2>4
  <1>6. CASE UNCHANGED table
    <2>1. Table'
      BY <1>6 DEF Table, table, LinksInTable, ClosedReleased
    <2>. QED  BY <1>2, <1>3, <2>1
  <1>. QED  BY <1>4, <1>5, <1>6 DEF Purge

(* The steps that leave the table alone: a reload, and those that only go   *)
(* to another loop.                                                         *)
LEMMA OtherKeeps ==
    ASSUME IInv, \/ Idle \/ PurgeStart \/ \E m \in MaxFlows : Reload(m)
                 \/ Ended \/ UNCHANGED vars
    PROVE  IInv'
  <1>. USE DEF IInv
  <1>1. UNCHANGED table
    BY DEF Idle, PurgeStart, Reload, Ended, vars
  <1>2. Table'
    BY <1>1 DEF Table, table, LinksInTable, ClosedReleased
  <1>3. Locals'
    BY FlowCacheAssumption, SMTT(20) DEF Locals, Idle, PurgeStart, Reload, Ended, vars, config, loops, tuning
  <1>4. Room' /\ CurrentKept' /\ Tuned'
    BY <1>1, SMTT(20) DEF Room, CurrentKept, Tuned, Idle, PurgeStart, Reload, Ended, vars,
                table, config, loops, tuning
  <1>. QED  BY <1>2, <1>3, <1>4

(* Every step keeps the invariant. *)
LEMMA InvStep == IInv /\ [Next]_vars => IInv'
  <1>. SUFFICES ASSUME IInv, [Next]_vars PROVE IInv'
    OBVIOUS
  <1>1. ASSUME NEW k \in Keys, NEW new \in BOOLEAN, Packet(k, new) PROVE IInv'
    BY <1>1, PacketKeeps
  <1>2. CASE Replace
    <2>1. /\ pc = "alloc" /\ Allocate(key) /\ key' = key /\ key \in Keys
          /\ key \notin Range(lru)
      BY <1>2 DEF Replace, IInv, Room
    <2>. QED  BY <2>1, AllocateKeeps
  <1>3. CASE PruneStale \/ StaleDone \/ PruneUnis \/ PruneExcess \/ ExcessDone
    BY <1>3, PruneStaleKeeps, StaleDoneKeeps, PruneUnisKeeps, PruneExcessKeeps, ExcessDoneKeeps
  <1>4. CASE TakePruned \/ Preempt
    BY <1>4, TakePrunedKeeps, PreemptKeeps
  <1>5. ASSUME NEW b \in BOOLEAN, NEW d \in BOOLEAN, NEW c \in BOOLEAN, NEW s \in BOOLEAN,
               Inspect(b, d, c, s)
        PROVE  IInv'
    BY <1>5, InspectKeeps
  <1>6. ASSUME NEW f \in Keys, Onload(f) \/ Age(f) PROVE IInv'
    BY <1>6, OnloadKeeps, AgeKeeps
  <1>7. CASE TimeoutSkip \/ TimeoutRelease \/ TimeoutDone
    BY <1>7, TimeoutKeeps
  <1>8. CASE TuneStart \/ DeleteFree \/ NextMode \/ DeleteActive
    BY <1>8, TuneKeeps, DeleteActiveKeeps
  <1>9. CASE Purge
    BY <1>9, PurgeKeeps
  <1>10. CASE \/ Idle \/ PurgeStart \/ \E m \in MaxFlows : Reload(m)
              \/ Ended \/ UNCHANGED vars
    BY <1>10, OtherKeeps
  <1>. QED
    BY <1>1, <1>2, <1>3, <1>4, <1>5, <1>6, <1>7, <1>8, <1>9, <1>10 DEF Next, Thread

(* It always holds. *)
LEMMA Invariant == Spec => []IInv
  <1>. QED  BY InvInit, InvStep, PTL DEF Spec
-----------------------------------------------------------------------------
(* The results. *)

(* Every variable of the flow table and of its loops keeps its type. *)
THEOREM FlowTypes == Spec => []TypeOK
  <1>1. IInv => TypeOK
    <2>. SUFFICES ASSUME IInv PROVE TypeOK
      OBVIOUS
    <2>1. allocated \in Nat
      <3>1. Len(lru) \in Nat /\ Len(free) \in Nat /\ allocated = Len(lru) + Len(free)
        BY SMTT(20) DEF IInv, Table
      <3>. QED  BY <3>1, SMTT(20)
    <2>2. cursor \in Keys \cup {None}
      BY RangeFacts DEF IInv, Table
    <2>. QED  BY <2>1, <2>2 DEF IInv, Table, Locals, TypeOK
  <1>. QED  BY <1>1, Invariant, PTL

(* Release, reuse and deletion lose no Flow and make none twice: those      *)
(* flows_allocated counts are in the table, each under its own key, or free.*)
THEOREM FlowsCounted == Spec => []AllocatedExact
  <1>1. IInv => AllocatedExact
    BY DEF IInv, Table, AllocatedExact
  <1>. QED  BY <1>1, Invariant, PTL

(* What allocate asserts after prune_stale, prune_unis and prune_excess:    *)
(* there is a free flow to take.                                            *)
THEOREM PruningMakesRoom == Spec => []RoomMade
  <1>1. IInv => RoomMade
    BY DEF IInv, Room, RoomMade
  <1>. QED  BY <1>1, Invariant, PTL

(* preemptive_cleanup never prunes the flow of the packet at hand. *)
THEOREM CurrentFlowStays == Spec => []CurrentKept
  <1>1. IInv => CurrentKept
    BY DEF IInv
  <1>. QED  BY <1>1, Invariant, PTL

(* Whatever takes a flow out of the table takes it off the cursor and off   *)
(* its list of one-sided flows, although its type may have changed since it *)
(* was linked.                                                              *)
THEOREM NoLinkDangles == Spec => []LinksInTable
  <1>1. IInv => LinksInTable
    BY DEF IInv, Table
  <1>. QED  BY <1>1, Invariant, PTL

(* check_flow_closed and the last suspended packet release a closed flow. *)
THEOREM ClosedFlowsGo == Spec => []ClosedReleased
  <1>1. IInv => ClosedReleased
    BY DEF IInv, Table
  <1>. QED  BY <1>1, Invariant, PTL

(* What a step of the tuner may take out of the table: the oldest flow, in  *)
(* mode ALL_FLOWS or one that is not blocked.                               *)
LEMMA TuneTakes ==
    ASSUME IInv, [Next]_vars, pc = "tune", NEW f \in Keys, Leaves(f), flow[f].blocked
    PROVE  \A g \in Range(lru) : flow[g].blocked
  <1>1. f \in Range(lru) /\ f \notin Range(lru')
    BY DEF Leaves
  <1>2. lru' # lru
    BY <1>1
  <1>3. DeleteActive
    BY <1>2 DEF Next, Thread, vars, table, Packet, Replace, PruneStale, StaleDone, PruneUnis,
                PruneExcess, ExcessDone, TakePruned, Preempt, Inspect, Onload, Idle, TimeoutSkip,
                TimeoutRelease, TimeoutDone, Reload, TuneStart, DeleteFree, NextMode, PurgeStart,
                Purge, Age, Ended
  <1>4. lru \in Seq(Keys) /\ IsInjective(lru) /\ mode \in 0 .. 3 /\ lru # <<>>
    BY <1>1, RangeFacts DEF IInv, Table, Locals
  <1>5. Oldest \in Range(lru)
    BY <1>4, OldestFacts DEF IInv
  <1>6. ~Spared(Oldest) /\ mode > 0
    <2>1. ASSUME Spared(Oldest) PROVE FALSE
      <3>1. Touch(Oldest, Oldest) /\ UNCHANGED <<flow, free, allocated, uni, count>>
        BY <1>3, <2>1 DEF DeleteActive
      <3>2. Range(lru') = Range(lru)
        BY <1>5, <3>1, TouchKeeps DEF IInv, Table, ClosedReleased
      <3>. QED  BY <1>1, <3>2
    <2>. QED  BY <1>3, <2>1 DEF DeleteActive
  <1>7. f = Oldest
    <2>1. lru' = Remove(lru, Oldest)
      BY <1>3, <1>6 DEF DeleteActive
    <2>2. Range(lru') = Range(lru) \ {Oldest}
      BY <1>4, <2>1, RemoveFacts
    <2>. QED  BY <1>1, <2>2
  <1>8. mode = 3
    BY <1>4, <1>6, <1>7, SMTT(20) DEF Spared
  <1>9. \A i \in 1 .. Len(lru) : flow[lru[i]].blocked
    BY <1>8 DEF IInv, Tuned
  <1>. QED  BY <1>4, <1>9, RangeFacts

(* Tuning after a reload deletes a blocked flow only when none but blocked  *)
(* ones are left: the flows mode OFFLOADED_FLOWS_TOO passed over are moved  *)
(* to the front, and it has been all round.                                 *)
THEOREM BlockedGoLast == Spec => BlockedLast
  <1>1. IInv /\ [Next]_vars =>
            [pc = "tune" => \A f \in Keys : Leaves(f) /\ flow[f].blocked =>
                \A g \in Range(lru) : flow[g].blocked]_vars
    BY TuneTakes
  <1>. QED  BY <1>1, Invariant, PTL DEF Spec, BlockedLast
=============================================================================
