-------------------------------- MODULE Ring --------------------------------
(***************************************************************************)
(* helpers/ring.h over helpers/ring_logic.h: a ring of sz slots with one   *)
(* writer and one reader that share nothing but the two volatile indices.  *)
(* The receive ring of the TCP connector is used exactly so (the input     *)
(* thread puts, the packet thread gets).  The k-th value put is the number *)
(* k, so what a get returns shows at once what was lost, repeated or       *)
(* reordered.                                                              *)
(*                                                                         *)
(* The slots are not volatile.  InOrder says whether the slot access and   *)
(* the index store of one call take effect in program order, which is up   *)
(* to the compiler and the machine; FALSE models every order.              *)
(***************************************************************************)
EXTENDS Integers

CONSTANTS
    Size,       \* the constructor's argument
    InOrder,    \* see above
    MaxPuts     \* bound on the number of successful puts

ASSUME RingAssumption ==
    /\ Size \in Nat /\ Size > 2
    /\ InOrder \in BOOLEAN
    /\ MaxPuts \in Nat

VARIABLES
    rx, wx,         \* RingLogic's indices: last slot read, next slot to write
    store,          \* the slots; 0 is a slot never written
    puts, gets,     \* calls of put and get that returned TRUE / a value
    wtodo, wslot,   \* the writer inside put: what is left to do, and its slot
    rtodo, rslot,   \* the reader inside get: the same
    got,            \* the value the reader's last load returned
    drops           \* TRUE when the last call of put returned FALSE

vars == <<rx, wx, store, puts, gets, wtodo, wslot, rtodo, rslot, got, drops>>

Slots == 0 .. Size - 1

(* Mutant: no wrap. *)
NextIxNoWrap(ix) == ix + 1

NextIx(ix) == IF ix + 1 < Size THEN ix + 1 ELSE 0

(* Mutant: forgets that the indices wrap. *)
CountNoWrap == wx - rx - 1

Count == LET c == wx - rx - 1 IN IF c < 0 THEN c + Size ELSE c

Full == Count = Size

Empty == Count = 0

RingInit ==
    /\ rx = 0 /\ wx = 1
    /\ store = [i \in Slots |-> 0]
    /\ puts = 0 /\ gets = 0
    /\ wtodo = {} /\ wslot = 0
    /\ rtodo = {} /\ rslot = 0
    /\ got = 0
    /\ drops = FALSE

-----------------------------------------------------------------------------
(* Ring::put *)

(* Mutant: full one slot early. *)
PutBeginEarlyFull ==
    /\ wtodo = {} /\ puts < MaxPuts
    /\ IF NextIx(NextIx(wx)) = rx
       THEN drops' = TRUE /\ UNCHANGED <<wtodo, wslot>>
       ELSE drops' = FALSE /\ wslot' = wx /\ wtodo' = {"slot", "index"}
    /\ UNCHANGED <<rx, wx, store, puts, gets, rtodo, rslot, got>>

(* write() returns the slot at wx, or none when the index would meet rx. *)
PutBegin ==
    /\ wtodo = {} /\ puts < MaxPuts
    /\ IF NextIx(wx) = rx
       THEN drops' = TRUE /\ UNCHANGED <<wtodo, wslot>>
       ELSE drops' = FALSE /\ wslot' = wx /\ wtodo' = {"slot", "index"}
    /\ UNCHANGED <<rx, wx, store, puts, gets, rtodo, rslot, got>>

(* *p = v, of the value with the number this put will have. *)
PutSlot ==
    /\ "slot" \in wtodo
    /\ store' = [store EXCEPT ![wslot] = IF "index" \in wtodo THEN puts + 1 ELSE puts]
    /\ wtodo' = wtodo \ {"slot"}
    /\ UNCHANGED <<rx, wx, puts, gets, wslot, rtodo, rslot, got, drops>>

(* Mutant: the index may become visible before the slot. *)
PutIndexFirst ==
    /\ "index" \in wtodo
    /\ wx' = NextIx(wx) /\ puts' = puts + 1
    /\ wtodo' = wtodo \ {"index"}
    /\ UNCHANGED <<rx, store, gets, wslot, rtodo, rslot, got, drops>>

(* push(): repeats the check of write() before it moves wx. *)
PutIndex ==
    /\ "index" \in wtodo
    /\ InOrder => "slot" \notin wtodo
    /\ IF NextIx(wx) = rx
       THEN UNCHANGED <<wx, puts>>
       ELSE wx' = NextIx(wx) /\ puts' = puts + 1
    /\ wtodo' = wtodo \ {"index"}
    /\ UNCHANGED <<rx, store, gets, wslot, rtodo, rslot, got, drops>>

-----------------------------------------------------------------------------
(* Ring::get *)

(* read() returns the slot after rx, or none when that is wx. *)
GetBegin ==
    /\ rtodo = {}
    /\ NextIx(rx) # wx
    /\ rslot' = NextIx(rx) /\ rtodo' = {"slot", "index"}
    /\ UNCHANGED <<rx, wx, store, puts, gets, wtodo, wslot, got, drops>>

(* v = *p *)
GetSlot ==
    /\ "slot" \in rtodo
    /\ got' = store[rslot]
    /\ rtodo' = rtodo \ {"slot"}
    /\ UNCHANGED <<rx, wx, store, puts, gets, wtodo, wslot, rslot, drops>>

(* pop(): repeats the check of read() before it moves rx. *)
GetIndex ==
    /\ "index" \in rtodo
    /\ InOrder => "slot" \notin rtodo
    /\ IF NextIx(rx) = wx
       THEN UNCHANGED <<rx, gets>>
       ELSE rx' = NextIx(rx) /\ gets' = gets + 1
    /\ rtodo' = rtodo \ {"index"}
    /\ UNCHANGED <<wx, store, puts, wtodo, wslot, rslot, got, drops>>

RingNext ==
    \/ PutBegin \/ PutSlot \/ PutIndex
    \/ GetBegin \/ GetSlot \/ GetIndex

Spec == RingInit /\ [][RingNext]_vars

-----------------------------------------------------------------------------
(* Properties *)

(* The indices, and the slots the two threads work on, stay inside the     *)
(* store that the constructor allocated.                                   *)
TypeOK ==
    /\ rx \in Slots /\ wx \in Slots /\ wslot \in Slots /\ rslot \in Slots
    /\ puts \in Nat /\ gets \in Nat /\ got \in Nat
    /\ store \in [Slots -> Nat]
    /\ wtodo \in SUBSET {"slot", "index"} /\ rtodo \in SUBSET {"slot", "index"}
    /\ drops \in BOOLEAN

(* count(), computed from the two indices across their wrap around, is the *)
(* number of values put and not yet got; a ring constructed with Size      *)
(* never holds more than Size - 2 of them, so full() is never TRUE.  The   *)
(* checks that push() and pop() repeat after write() and read() never      *)
(* fail: a put that wrote a slot publishes it, and a get that loaded a     *)
(* slot consumes it.                                                       *)
CountIsBacklog ==
    /\ Count = puts - gets
    /\ Count <= Size - 2
    /\ ~Full
    /\ "index" \in wtodo => NextIx(wx) # rx
    /\ "index" \in rtodo => NextIx(rx) # wx

(* The value get returns is the oldest one not yet returned: nothing is    *)
(* lost, repeated, reordered or read from a slot the writer is filling,    *)
(* however the steps of put and get interleave.                            *)
GetsInOrder ==
    /\ rtodo = {} => got = gets
    /\ rtodo = {"index"} => got = gets + 1

(* put returns FALSE, and so the caller loses the value, only while        *)
(* Size - 2 values are waiting.                                            *)
DropsOnlyWhenFull ==
    [][PutBegin /\ drops' => puts - gets = Size - 2]_vars

=============================================================================
