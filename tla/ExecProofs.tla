----------------------------- MODULE ExecProofs -----------------------------
(***************************************************************************)
(* Proofs about Exec for any program, any depth of host functions that     *)
(* call back, and any number of restarts: what does not depend on the      *)
(* soundness of validation.                                                *)
(*                                                                         *)
(* The vector of restart information is a stack of the host functions that *)
(* have called a function, and above them one slot for whoever may restart *)
(* next.  That the slot belongs to the one who finds it needs to be known  *)
(* of the whole vector: when a host function is called again its entry     *)
(* becomes the slot, and what was the slot is then above it, where it must *)
(* not be left behind.  In the same way the bottoms that the entries saved *)
(* are in order, so that no return goes below a host function.             *)
(***************************************************************************)
EXTENDS Exec, Induction, SequenceTheorems

IsSeq(s) == s \in Seq(Range(s))

(* Events of the function that is executed: it has a frame of its own. *)
FrameEvents == {"branch", "return_call", "exception", "restart_insn"}

FramesOK == /\ IsSeq(frames)
            /\ bottom \in 0..Len(frames)
            /\ event.type \in FrameEvents => Len(frames) > bottom
            /\ ret = "idle" => event.type = "none"

(* The host functions that have called, outermost first; nothing is left above
   the slot. *)
RestartsOK ==
    /\ IsSeq(restarts)
    /\ nrestarts \in 0..Len(restarts)
    /\ \A k \in 1..nrestarts :
         /\ restarts[k].type = "hostfunc"
         /\ restarts[k].func \in HostFuncs
         /\ restarts[k].saved_bottom \in 0..bottom
         /\ \A m \in k..nrestarts :
              restarts[k].saved_bottom <= restarts[m].saved_bottom
    /\ \A k \in 1..Len(restarts) :
         k > nrestarts + 1 => restarts[k] = RestartNone

(* The slot is empty, or of the host function or the instruction that is to be
   executed again. *)
SlotOK == \/ Slot = RestartNone
          \/ /\ event.type = "call" /\ event.func \in HostFuncs
             /\ Slot.type # "none" /\ Slot.func = event.func
          \/ /\ event.type = "restart_insn"
             /\ Slot = RestartTimer(cur, p)

XInv == FramesOK /\ RestartsOK /\ SlotOK

-----------------------------------------------------------------------------
(* A sequence is one over its own elements. *)
LEMMA SeqOverRange ==
  ASSUME NEW S, NEW s \in Seq(S)
  PROVE  IsSeq(s) /\ Len(s) \in Nat /\ DOMAIN s = 1..Len(s)
<1>1. Len(s) \in Nat /\ DOMAIN s = 1..Len(s) /\ s \in [1..Len(s) -> S]
  BY LenProperties
<1>2. s \in [1..Len(s) -> Range(s)]
  BY <1>1 DEF Range
<1> QED BY <1>1, <1>2, SeqDef DEF IsSeq

(* The first n elements of a sequence. *)
LEMMA TakeFacts ==
  ASSUME NEW s, IsSeq(s), NEW n \in 0..Len(s)
  PROVE  /\ IsSeq(Take(s, n)) /\ Len(Take(s, n)) = n
         /\ \A k \in 1..n : Take(s, n)[k] = s[k]
<1> DEFINE r == Take(s, n)
<1>1. s \in Seq(Range(s)) /\ Len(s) \in Nat
  BY LenProperties DEF IsSeq
<1>2. \A k \in 1..n : s[k] \in Range(s)
  BY <1>1, ElementOfSeq
<1>3. /\ r \in Seq(Range(s)) /\ Len(r) = (IF 1 <= n THEN n - 1 + 1 ELSE 0)
      /\ \A k \in 1..(n - 1 + 1) : r[k] = s[1 + k - 1]
  BY <1>1, <1>2, SubSeqProperties DEF Take
<1> HIDE DEF r
<1>4. Len(r) = n /\ \A k \in 1..n : r[k] = s[k]
  BY <1>1, <1>3
<1>5. IsSeq(r)
  BY <1>3, SeqOverRange
<1> QED BY <1>4, <1>5 DEF r

(* Two sequences with the same first b elements. *)
LEMMA SameTake ==
  ASSUME NEW s, NEW r, IsSeq(s), IsSeq(r), NEW b \in 0..Len(s), b <= Len(r),
         \A k \in 1..b : r[k] = s[k]
  PROVE  Take(r, b) = Take(s, b)
<1>1. Len(s) \in Nat /\ Len(r) \in Nat
  BY LenProperties DEF IsSeq
<1>2. b \in 0..Len(r)
  BY <1>1
<1>3. /\ IsSeq(Take(s, b)) /\ Len(Take(s, b)) = b /\ \A k \in 1..b : Take(s, b)[k] = s[k]
  BY TakeFacts
<1>4. /\ IsSeq(Take(r, b)) /\ Len(Take(r, b)) = b /\ \A k \in 1..b : Take(r, b)[k] = r[k]
  BY <1>2, TakeFacts
<1>5. \A k \in 1..b : Take(r, b)[k] = Take(s, b)[k]
  BY <1>3, <1>4
<1> HIDE DEF Take
<1>6. DOMAIN Take(s, b) = 1..b /\ DOMAIN Take(r, b) = 1..b
  BY <1>3, <1>4, LenProperties DEF IsSeq
<1>7. /\ Take(s, b) = [k \in 1..b |-> Take(s, b)[k]]
      /\ Take(r, b) = [k \in 1..b |-> Take(r, b)[k]]
  BY <1>3, <1>4, <1>6, LenProperties DEF IsSeq
<1> QED BY <1>5, <1>7

(* One more element. *)
LEMMA AppendFacts ==
  ASSUME NEW s, IsSeq(s), NEW x
  PROVE  /\ IsSeq(Append(s, x)) /\ Len(Append(s, x)) = Len(s) + 1
         /\ Append(s, x)[Len(s) + 1] = x
         /\ \A k \in 1..Len(s) : Append(s, x)[k] = s[k]
<1>1. s \in Seq(Range(s) \cup {x})
  <2>1. Range(s) \subseteq Range(s) \cup {x}
    OBVIOUS
  <2>2. \A k \in 1..Len(s) : s[k] \in Range(s) \cup {x}
    BY ElementOfSeq DEF IsSeq
  <2>3. Len(s) \in Nat /\ s \in [1..Len(s) -> Range(s)]
    BY LenProperties DEF IsSeq
  <2>4. s \in [1..Len(s) -> Range(s) \cup {x}]
    BY <2>2, <2>3
  <2> QED BY <2>3, <2>4, SeqDef
<1>2. /\ Append(s, x) \in Seq(Range(s) \cup {x}) /\ Len(Append(s, x)) = Len(s) + 1
      /\ Append(s, x)[Len(s) + 1] = x
      /\ \A k \in 1..Len(s) : Append(s, x)[k] = s[k]
  BY <1>1, AppendProperties
<1>3. IsSeq(Append(s, x))
  BY <1>2, SeqOverRange
<1> QED BY <1>2, <1>3

Put(s, n, x) == [s EXCEPT ![n] = x]

(* A sequence with one element replaced. *)
LEMMA ExceptFacts ==
  ASSUME NEW s, IsSeq(s), NEW n \in 1..Len(s), NEW x
  PROVE  /\ IsSeq(Put(s, n, x)) /\ Len(Put(s, n, x)) = Len(s)
         /\ Put(s, n, x)[n] = x
         /\ \A k \in 1..Len(s) : k # n => Put(s, n, x)[k] = s[k]
<1> DEFINE r == Put(s, n, x)
           S == Range(s) \cup {x}
<1>1. Len(s) \in Nat /\ DOMAIN s = 1..Len(s) /\ s \in [1..Len(s) -> Range(s)]
  BY LenProperties DEF IsSeq
<1>2. r \in [1..Len(s) -> S] /\ r[n] = x /\ \A k \in 1..Len(s) : k # n => r[k] = s[k]
  BY <1>1 DEF Put
<1> HIDE DEF r, S
<1>3. r \in Seq(S) /\ DOMAIN r = 1..Len(s)
  BY <1>1, <1>2, SeqDef
<1>4. IsSeq(r) /\ Len(r) \in Nat /\ DOMAIN r = 1..Len(r)
  BY <1>3, SeqOverRange
<1>5. Len(r) = Len(s)
  BY <1>3, LenProperties, <1>1
<1> QED BY <1>2, <1>4, <1>5 DEF r

(* restart_info_prealloc: the vector with its slot. *)
LEMMA SlotFacts ==
  ASSUME RestartsOK
  PROVE  /\ IsSeq(Slots) /\ nrestarts \in Nat /\ nrestarts + 1 \in 1..Len(Slots)
         /\ Len(restarts) <= Len(Slots)
         /\ \A k \in 1..Len(restarts) : Slots[k] = restarts[k]
         /\ \A k \in 1..Len(Slots) : k > nrestarts + 1 => Slots[k] = RestartNone
         /\ nrestarts < Len(restarts) => Slot = restarts[nrestarts + 1]
         /\ ~(nrestarts < Len(restarts)) => Slot = RestartNone
<1>1. IsSeq(restarts) /\ Len(restarts) \in Nat /\ nrestarts \in 0..Len(restarts)
  BY LenProperties DEF RestartsOK, IsSeq
<1>2. CASE nrestarts < Len(restarts)
  BY <1>1, <1>2 DEF RestartsOK, Slot, Slots
<1>3. CASE ~(nrestarts < Len(restarts))
  <2>1. nrestarts = Len(restarts) /\ Slots = Append(restarts, RestartNone)
    BY <1>1, <1>3 DEF Slots
  <2>2. /\ IsSeq(Append(restarts, RestartNone))
        /\ Len(Append(restarts, RestartNone)) = Len(restarts) + 1
        /\ Append(restarts, RestartNone)[Len(restarts) + 1] = RestartNone
        /\ \A k \in 1..Len(restarts) : Append(restarts, RestartNone)[k] = restarts[k]
    BY <1>1, AppendFacts
  <2> QED BY <1>1, <1>3, <2>1, <2>2 DEF Slot
<1> QED BY <1>2, <1>3

(* No host function or instruction has anything to restart with. *)
LEMMA SlotEmpty ==
  ASSUME XInv, event.type # "restart_insn", event.type = "call" => event.func \notin HostFuncs
  PROVE  Slot = RestartNone
  BY DEF XInv, SlotOK

-----------------------------------------------------------------------------
(* A step that leaves the frames and the restart information alone. *)
LEMMA KeepInv ==
  ASSUME XInv, UNCHANGED <<frames, restarts, nrestarts, bottom>>,
         Slot = RestartNone \/ UNCHANGED <<event, p, cur>>,
         event'.type \in FrameEvents => Len(frames) > bottom,
         ret' # "idle" \/ UNCHANGED <<ret, event>>
  PROVE  XInv'
<1>1. FramesOK'
  BY DEF XInv, FramesOK
<1>2. RestartsOK'
  BY DEF XInv, RestartsOK
<1>3. SlotOK'
  BY DEF XInv, SlotOK, Slot, Slots
<1> QED BY <1>1, <1>2, <1>3 DEF XInv

(* A step that pushes or pops frames, not below the bottom. *)
LEMMA FramesInv ==
  ASSUME XInv, IsSeq(frames'), Len(frames') >= bottom,
         UNCHANGED <<restarts, nrestarts, bottom>>, Slot = RestartNone,
         event'.type \notin FrameEvents, ret' # "idle"
  PROVE  XInv'
<1>1. FramesOK'
  <2>1. Len(frames') \in Nat /\ Len(frames) \in Nat
    BY LenProperties DEF IsSeq, XInv, FramesOK
  <2> QED BY <2>1 DEF XInv, FramesOK
<1>2. RestartsOK'
  BY DEF XInv, RestartsOK
<1>3. SlotOK'
  BY DEF XInv, SlotOK, Slot, Slots
<1> QED BY <1>1, <1>2, <1>3 DEF XInv

(* A step that stores r in the slot. *)
LEMMA SlotInv ==
  ASSUME XInv, NEW r, restarts' = [Slots EXCEPT ![nrestarts + 1] = r],
         UNCHANGED <<frames, nrestarts, bottom>>,
         event'.type \in FrameEvents => Len(frames) > bottom, ret' # "idle",
         \/ r = RestartNone
         \/ /\ event'.type = "call" /\ event'.func \in HostFuncs
            /\ r.type # "none" /\ r.func = event'.func
         \/ event'.type = "restart_insn" /\ r = RestartTimer(cur', p')
  PROVE  XInv'
<1>1. FramesOK'
  BY DEF XInv, FramesOK
<1>2. /\ IsSeq(Slots) /\ nrestarts \in Nat /\ nrestarts + 1 \in 1..Len(Slots)
      /\ Len(restarts) <= Len(Slots) /\ Len(restarts) \in Nat
      /\ \A k \in 1..Len(restarts) : Slots[k] = restarts[k]
      /\ \A k \in 1..Len(Slots) : k > nrestarts + 1 => Slots[k] = RestartNone
  BY SlotFacts, LenProperties DEF XInv, RestartsOK, IsSeq
<1>3. /\ IsSeq(restarts') /\ Len(restarts') = Len(Slots)
      /\ restarts'[nrestarts + 1] = r
      /\ \A k \in 1..Len(Slots) : k # nrestarts + 1 => restarts'[k] = Slots[k]
  <2>1. restarts' = Put(Slots, nrestarts + 1, r)
    BY DEF Put
  <2>2. PICK R : R = Put(Slots, nrestarts + 1, r)
    OBVIOUS
  <2>3. /\ IsSeq(R) /\ Len(R) = Len(Slots) /\ R[nrestarts + 1] = r
        /\ \A k \in 1..Len(Slots) : k # nrestarts + 1 => R[k] = Slots[k]
    BY <1>2, <2>2, ExceptFacts
  <2>4. R = restarts'
    BY <2>1, <2>2
  <2> QED BY <2>3, <2>4
<1>4. Len(Slots) \in Nat
  BY <1>2, LenProperties DEF IsSeq
<1>5. \A k \in 1..nrestarts : restarts'[k] = restarts[k]
  <2>1. \A k \in 1..nrestarts : k \in 1..Len(restarts) /\ k \in 1..Len(Slots) /\ k # nrestarts + 1
    BY <1>2, <1>4 DEF XInv, RestartsOK
  <2> QED BY <1>2, <1>3, <2>1
<1>6. \A k \in 1..Len(restarts') : k > nrestarts' + 1 => restarts'[k] = RestartNone
  BY <1>2, <1>3, <1>4
<1>7. nrestarts' \in 0..Len(restarts') /\ nrestarts' < Len(restarts')
  BY <1>2, <1>3, <1>4
<1>8. ASSUME NEW k \in 1..nrestarts'
      PROVE  /\ restarts'[k].type = "hostfunc" /\ restarts'[k].func \in HostFuncs
             /\ restarts'[k].saved_bottom \in 0..bottom'
             /\ \A m \in k..nrestarts' :
                  restarts'[k].saved_bottom <= restarts'[m].saved_bottom
  <2>1. nrestarts' = nrestarts /\ bottom' = bottom /\ k \in 1..nrestarts
    OBVIOUS
  <2>2. \A m \in k..nrestarts : m \in 1..nrestarts
    BY <1>2
  <2>3. /\ restarts[k].type = "hostfunc" /\ restarts[k].func \in HostFuncs
        /\ restarts[k].saved_bottom \in 0..bottom
        /\ \A m \in k..nrestarts : restarts[k].saved_bottom <= restarts[m].saved_bottom
    BY <2>1 DEF XInv, RestartsOK
  <2> HIDE DEF RestartsOK
  <2> QED BY <1>5, <2>1, <2>2, <2>3
<1>9. RestartsOK'
  BY <1>3, <1>6, <1>7, <1>8 DEF RestartsOK
<1>10. Slot' = r
  <2>1. Slot' = restarts'[nrestarts' + 1]
    BY <1>7 DEF Slot, Slots
  <2> QED BY <1>3, <2>1
<1>11. SlotOK'
  BY <1>10 DEF SlotOK
<1> QED BY <1>1, <1>9, <1>11 DEF XInv

(* schedule_call_from_hostfunc: the slot becomes the entry of the host function,
   and the new slot is empty. *)
LEMMA HostCallInv ==
  ASSUME XInv, NEW g \in Funcs, HostCall(g)
  PROVE  XInv'
<1> DEFINE r == Scheduled(g)
<1>0. /\ event.type = "call" /\ event.func \in HostFuncs
      /\ restarts' = [Slots EXCEPT ![nrestarts + 1] = r] /\ nrestarts' = nrestarts + 1
      /\ bottom' = Len(frames) /\ frames' = frames /\ event' = CallEvent(g) /\ ret' = "restart"
  BY DEF HostCall, HostPrealloc, InHost, Running
<1>r. r.type = "hostfunc" /\ r.func = event.func /\ r.saved_bottom = bottom
  BY DEF Scheduled
<1>b. bottom \in 0..Len(frames) /\ Len(frames) \in Nat
  BY LenProperties DEF XInv, FramesOK, IsSeq
<1> HIDE DEF r
<1>1. FramesOK'
  BY <1>0, <1>b DEF XInv, FramesOK, CallEvent, FrameEvents
<1>2. /\ IsSeq(Slots) /\ nrestarts \in Nat /\ nrestarts + 1 \in 1..Len(Slots)
      /\ Len(restarts) <= Len(Slots) /\ Len(restarts) \in Nat
      /\ \A k \in 1..Len(restarts) : Slots[k] = restarts[k]
      /\ \A k \in 1..Len(Slots) : k > nrestarts + 1 => Slots[k] = RestartNone
  BY SlotFacts, LenProperties DEF XInv, RestartsOK, IsSeq
<1>3. /\ IsSeq(restarts') /\ Len(restarts') = Len(Slots)
      /\ restarts'[nrestarts + 1] = r
      /\ \A k \in 1..Len(Slots) : k # nrestarts + 1 => restarts'[k] = Slots[k]
  <2>1. restarts' = Put(Slots, nrestarts + 1, r)
    BY <1>0 DEF Put
  <2> QED BY <1>2, <2>1, ExceptFacts
<1>4. Len(Slots) \in Nat
  BY <1>2, LenProperties DEF IsSeq
<1>5. \A k \in 1..nrestarts :
        /\ restarts'[k] = restarts[k] /\ restarts[k].type = "hostfunc"
        /\ restarts[k].func \in HostFuncs /\ restarts[k].saved_bottom \in 0..bottom
        /\ \A m \in k..nrestarts : restarts[k].saved_bottom <= restarts[m].saved_bottom
  <2>1. \A k \in 1..nrestarts : k \in 1..Len(restarts) /\ k \in 1..Len(Slots) /\ k # nrestarts + 1
    BY <1>2, <1>4 DEF XInv, RestartsOK
  <2>2. \A k \in 1..nrestarts : restarts'[k] = restarts[k]
    BY <1>2, <1>3, <2>1
  <2> QED BY <2>2 DEF XInv, RestartsOK
<1>6. \A k \in 1..Len(restarts') : k > nrestarts' => restarts'[k] = RestartNone
  <2> SUFFICES ASSUME NEW k \in 1..Len(restarts'), k > nrestarts' PROVE restarts'[k] = RestartNone
    OBVIOUS
  <2>1. k \in 1..Len(Slots) /\ k > nrestarts + 1 /\ k # nrestarts + 1
    BY <1>0, <1>2, <1>3, <1>4
  <2> QED BY <1>2, <1>3, <2>1
<1>7. nrestarts' \in 0..Len(restarts')
  BY <1>0, <1>2, <1>3, <1>4
<1>8. ASSUME NEW k \in 1..nrestarts'
      PROVE  /\ restarts'[k].type = "hostfunc" /\ restarts'[k].func \in HostFuncs
             /\ restarts'[k].saved_bottom \in 0..bottom'
             /\ \A m \in k..nrestarts' :
                  restarts'[k].saved_bottom <= restarts'[m].saved_bottom
  <2>1. CASE k = nrestarts + 1
    <3>1. /\ restarts'[k].type = "hostfunc" /\ restarts'[k].func \in HostFuncs
          /\ restarts'[k].saved_bottom = bottom
      BY <1>0, <1>r, <1>3, <2>1
    <3>2. \A m \in k..nrestarts' : m = k
      BY <1>0, <1>2, <2>1
    <3> QED BY <1>0, <1>b, <3>1, <3>2
  <2>2. CASE k # nrestarts + 1
    <3>1. k \in 1..nrestarts
      BY <1>0, <1>2, <2>2
    <3>2. /\ restarts'[k] = restarts[k] /\ restarts[k].type = "hostfunc"
          /\ restarts[k].func \in HostFuncs /\ restarts[k].saved_bottom \in 0..bottom
          /\ \A m \in k..nrestarts : restarts[k].saved_bottom <= restarts[m].saved_bottom
      BY <1>5, <3>1
    <3>3. ASSUME NEW m \in k..nrestarts'
          PROVE  restarts'[k].saved_bottom <= restarts'[m].saved_bottom
      <4>1. CASE m = nrestarts + 1
        <5>1. restarts'[m].saved_bottom = bottom
          BY <1>r, <1>3, <4>1
        <5> QED BY <1>b, <3>2, <5>1
      <4>2. CASE m # nrestarts + 1
        <5>1. m \in k..nrestarts /\ m \in 1..nrestarts
          BY <1>0, <1>2, <4>2
        <5> QED BY <1>5, <3>2, <5>1
      <4> QED BY <4>1, <4>2
    <3> QED BY <1>0, <1>b, <3>2, <3>3
  <2> QED BY <2>1, <2>2
<1>9. RestartsOK'
  <2>1. \A k \in 1..Len(restarts') : k > nrestarts' + 1 => restarts'[k] = RestartNone
    BY <1>3, <1>4, <1>6, <1>7
  <2> QED BY <1>3, <1>7, <1>8, <2>1 DEF RestartsOK
<1>10. Slot' = RestartNone
  <2>1. CASE nrestarts' < Len(restarts')
    <3>1. Slot' = restarts'[nrestarts' + 1]
      BY <2>1 DEF Slot, Slots
    <3> QED BY <1>3, <1>4, <1>6, <1>7, <2>1, <3>1
  <2>2. CASE ~(nrestarts' < Len(restarts'))
    <3>1. nrestarts' = Len(restarts')
      BY <1>3, <1>4, <1>7, <2>2
    <3>2. Slot' = Append(restarts', RestartNone)[Len(restarts') + 1]
      BY <2>2, <3>1 DEF Slot, Slots
    <3> QED BY <1>3, <3>2, AppendFacts
  <2> QED BY <2>1, <2>2
<1> QED BY <1>1, <1>9, <1>10 DEF XInv, SlotOK

(* return_to_hostfunc: the last entry becomes the slot again. *)
LEMMA ReturnToHostfuncInv ==
  ASSUME XInv, ReturnToHostfunc
  PROVE  XInv'
<1> DEFINE hf == restarts[nrestarts]
<1>0. /\ event.type = "none" /\ ret = "run" /\ Len(frames) = bottom /\ nrestarts > 0
      /\ bottom' = hf.saved_bottom /\ event' = CallEvent(hf.func)
      /\ nrestarts' = nrestarts - 1 /\ UNCHANGED <<frames, restarts, ret>>
  BY DEF ReturnToHostfunc, AtBottom, Running
<1>1. /\ IsSeq(restarts) /\ Len(restarts) \in Nat /\ nrestarts \in 1..Len(restarts)
      /\ bottom \in Nat /\ nrestarts \in Nat
  BY <1>0, LenProperties DEF XInv, RestartsOK, FramesOK, IsSeq
<1>2. /\ hf.type = "hostfunc" /\ hf.func \in HostFuncs /\ hf.saved_bottom \in 0..bottom
  <2>1. nrestarts \in 1..nrestarts
    BY <1>1
  <2> QED BY <2>1 DEF XInv, RestartsOK
<1>3. Slot = RestartNone
  BY <1>0, SlotEmpty
<1>4. FramesOK'
  BY <1>0, <1>1, <1>2 DEF XInv, FramesOK, CallEvent, FrameEvents
<1>5. \A k \in 1..Len(restarts') : k > nrestarts' + 1 => restarts'[k] = RestartNone
  <2> SUFFICES ASSUME NEW k \in 1..Len(restarts), k > nrestarts PROVE restarts[k] = RestartNone
    BY <1>0, <1>1
  <2>1. CASE k = nrestarts + 1
    <3>1. Slot = restarts[nrestarts + 1]
      BY <1>1, <2>1, SlotFacts DEF XInv
    <3> QED BY <1>3, <2>1, <3>1
  <2>2. CASE k > nrestarts + 1
    BY <2>2 DEF XInv, RestartsOK
  <2> QED BY <1>1, <2>1, <2>2
<1>6. ASSUME NEW k \in 1..nrestarts'
      PROVE  /\ restarts[k].type = "hostfunc" /\ restarts[k].func \in HostFuncs
             /\ restarts[k].saved_bottom \in 0..hf.saved_bottom
             /\ \A m \in k..nrestarts' : restarts[k].saved_bottom <= restarts[m].saved_bottom
  <2>1. k \in 1..nrestarts /\ nrestarts \in k..nrestarts
        /\ \A m \in k..nrestarts' : m \in k..nrestarts
    BY <1>0, <1>1
  <2>2. /\ restarts[k].type = "hostfunc" /\ restarts[k].func \in HostFuncs
        /\ restarts[k].saved_bottom \in 0..bottom
        /\ \A m \in k..nrestarts : restarts[k].saved_bottom <= restarts[m].saved_bottom
    BY <2>1 DEF XInv, RestartsOK
  <2>3. restarts[k].saved_bottom <= hf.saved_bottom
    BY <2>1, <2>2
  <2>4. restarts[k].saved_bottom \in 0..hf.saved_bottom
    BY <1>1, <1>2, <2>2, <2>3
  <2> QED BY <2>1, <2>2, <2>4
<1>7. RestartsOK'
  <2>1. IsSeq(restarts') /\ nrestarts' \in 0..Len(restarts')
    BY <1>0, <1>1
  <2> QED BY <1>0, <1>5, <1>6, <2>1 DEF RestartsOK
<1>8. Slot' = hf
  <2>1. nrestarts' < Len(restarts') /\ nrestarts' + 1 = nrestarts
    BY <1>0, <1>1
  <2> QED BY <1>0, <2>1 DEF Slot, Slots
<1>9. SlotOK'
  BY <1>0, <1>2, <1>8 DEF SlotOK, CallEvent
<1> QED BY <1>4, <1>7, <1>9 DEF XInv

-----------------------------------------------------------------------------
(* The frames up to the bottom, those of the caller of a host function. *)
FramesKept == Take(frames', bottom) = Take(frames, bottom)

(* A frame is pushed. *)
LEMMA PushFrame ==
  ASSUME XInv, NEW x, frames' = Append(frames, x)
  PROVE  IsSeq(frames') /\ Len(frames') >= bottom /\ FramesKept
<1>1. IsSeq(frames) /\ Len(frames) \in Nat /\ bottom \in 0..Len(frames)
  BY LenProperties DEF XInv, FramesOK, IsSeq
<1>2. PICK r : r = Append(frames, x)
  OBVIOUS
<1>3. IsSeq(r) /\ Len(r) = Len(frames) + 1 /\ \A k \in 1..Len(frames) : r[k] = frames[k]
  BY <1>1, <1>2, AppendFacts
<1>4. \A k \in 1..bottom : r[k] = frames[k]
  BY <1>1, <1>3
<1>5. bottom <= Len(r) /\ Len(r) >= bottom
  BY <1>1, <1>3
<1>6. Take(r, bottom) = Take(frames, bottom)
  BY <1>1, <1>3, <1>4, <1>5, SameTake
<1> QED BY <1>2, <1>3, <1>5, <1>6 DEF FramesKept

(* The frames above the nth one, which is not below the bottom, are popped. *)
LEMMA PopFrames ==
  ASSUME XInv, NEW n \in bottom..Len(frames), frames' = Take(frames, n)
  PROVE  IsSeq(frames') /\ Len(frames') >= bottom /\ FramesKept
<1>1. IsSeq(frames) /\ Len(frames) \in Nat /\ bottom \in 0..Len(frames) /\ n \in 0..Len(frames)
  BY LenProperties DEF XInv, FramesOK, IsSeq
<1>2. PICK r : r = Take(frames, n)
  OBVIOUS
<1>3. IsSeq(r) /\ Len(r) = n /\ \A k \in 1..n : r[k] = frames[k]
  BY <1>1, <1>2, TakeFacts
<1>4. \A k \in 1..bottom : r[k] = frames[k]
  BY <1>1, <1>3
<1>5. bottom <= Len(r) /\ Len(r) >= bottom
  BY <1>1, <1>3
<1>6. Take(r, bottom) = Take(frames, bottom)
  BY <1>1, <1>3, <1>4, <1>5, SameTake
<1> QED BY <1>2, <1>3, <1>5, <1>6 DEF FramesKept

(* frame_exit of the last frame, which is above the bottom. *)
LEMMA PopLast ==
  ASSUME XInv, event.type \in FrameEvents
  PROVE  Len(frames) - 1 \in bottom..Len(frames)
<1>1. Len(frames) \in Nat /\ bottom \in 0..Len(frames) /\ Len(frames) > bottom
  BY LenProperties DEF XInv, FramesOK, IsSeq
<1> QED BY <1>1

(* do_wasm_call *)
LEMMA CallWasmInv ==
  ASSUME XInv, CallWasm
  PROVE  XInv' /\ FramesKept
<1>1. /\ event.type = "call" /\ event.func \in WasmFuncs /\ ret = "run"
      /\ UNCHANGED <<restarts, nrestarts, bottom>>
  BY DEF CallWasm, Running
<1>2. Slot = RestartNone
  BY <1>1, ValidationAssumption, SlotEmpty
<1>3. CASE FrameFits(event.func)
  <2>1. /\ FrameEnter(event.func) /\ event' = NoEvent /\ ret' = ret
    BY <1>3 DEF CallWasm
  <2>2. PICK x : frames' = Append(frames, x)
    BY <2>1 DEF FrameEnter
  <2>3. event'.type \notin FrameEvents /\ ret' # "idle"
    BY <1>1, <2>1 DEF NoEvent, FrameEvents
  <2>4. IsSeq(frames') /\ Len(frames') >= bottom /\ FramesKept
    BY <2>2, PushFrame
  <2> QED BY <1>1, <1>2, <2>3, <2>4, FramesInv
<1>4. CASE ~FrameFits(event.func)
  <2>1. UNCHANGED <<frames, event>> /\ ret' = "trap"
    BY <1>4 DEF CallWasm, Trap
  <2>2. event'.type \notin FrameEvents
    BY <1>1, <2>1 DEF FrameEvents
  <2>3. XInv'
    BY <1>1, <1>2, <2>1, <2>2, KeepInv
  <2> QED BY <2>1, <2>3 DEF FramesKept
<1> QED BY <1>3, <1>4

(* do_return_call *)
LEMMA ReturnCallInv ==
  ASSUME XInv, ReturnCall
  PROVE  XInv' /\ FramesKept
<1>1. /\ event.type = "return_call" /\ ret = "run" /\ frames' = Take(frames, Len(frames) - 1)
      /\ event' = CallEvent(event.func) /\ UNCHANGED <<restarts, nrestarts, bottom, ret>>
  BY DEF ReturnCall, Running, ExitTo
<1>2. Slot = RestartNone
  BY <1>1, SlotEmpty
<1>3. Len(frames) - 1 \in bottom..Len(frames)
  BY <1>1, PopLast DEF FrameEvents
<1>4. IsSeq(frames') /\ Len(frames') >= bottom /\ FramesKept
  BY <1>1, <1>3, PopFrames
<1>5. event'.type \notin FrameEvents /\ ret' # "idle"
  BY <1>1 DEF CallEvent, FrameEvents
<1> QED BY <1>1, <1>2, <1>4, <1>5, FramesInv

(* do_branch out of the function *)
LEMMA BranchToFunctionInv ==
  ASSUME XInv, BranchToFunction
  PROVE  XInv' /\ FramesKept
<1>1. /\ event.type = "branch" /\ ret = "run" /\ frames' = Take(frames, Len(frames) - 1)
      /\ event' = NoEvent /\ UNCHANGED <<restarts, nrestarts, bottom, ret>>
  BY DEF BranchToFunction, Running, ExitTo
<1>2. Slot = RestartNone
  BY <1>1, SlotEmpty
<1>3. Len(frames) - 1 \in bottom..Len(frames)
  BY <1>1, PopLast DEF FrameEvents
<1>4. IsSeq(frames') /\ Len(frames') >= bottom /\ FramesKept
  BY <1>1, <1>3, PopFrames
<1>5. event'.type \notin FrameEvents /\ ret' # "idle"
  BY <1>1 DEF NoEvent, FrameEvents
<1> QED BY <1>1, <1>2, <1>4, <1>5, FramesInv

(* find_catch finds a frame above the bottom, and do_exception pops those above
   it, or it too. *)
LEMMA CatchExceptionInv ==
  ASSUME XInv, CatchException
  PROVE  XInv' /\ FramesKept
<1> DEFINE S == HandlingFrames(Last(stack))
           n == Max(S)
<1>1. /\ event.type = "exception" /\ ret = "run" /\ S # {} /\ event' = NoEvent
      /\ UNCHANGED <<restarts, nrestarts, bottom, ret>>
      /\ frames' = Take(frames, n - 1) \/ frames' = Take(frames, n)
  BY DEF CatchException, Running, ExitTo
<1>2. Slot = RestartNone
  BY <1>1, SlotEmpty
<1>3. Len(frames) \in Nat /\ bottom \in 0..Len(frames)
  BY LenProperties DEF XInv, FramesOK, IsSeq
<1>4. n \in (bottom + 1)..Len(frames)
  <2>1. S \subseteq (bottom + 1)..Len(frames)
    BY DEF HandlingFrames
  <2>2. (bottom + 1)..Len(frames) \subseteq Nat /\ IsFiniteSet((bottom + 1)..Len(frames))
    BY <1>3, FS_Interval
  <2>3. S \in SUBSET Nat /\ IsFiniteSet(S)
    BY <2>1, <2>2, FS_Subset
  <2> HIDE DEF S
  <2>4. \E m \in S : \A k \in S : k <= m
    BY <1>1, <2>3, LargestElement
  <2>5. \E m \in S : \A k \in S : m >= k
    BY <2>3, <2>4
  <2>6. Max(S) \in S
    BY <2>5 DEF Max
  <2> QED BY <2>1, <2>6
<1> HIDE DEF n, S
<1>5. n \in bottom..Len(frames) /\ n - 1 \in bottom..Len(frames)
  BY <1>3, <1>4
<1>6. IsSeq(frames') /\ Len(frames') >= bottom /\ FramesKept
  BY <1>1, <1>5, PopFrames
<1>7. event'.type \notin FrameEvents /\ ret' # "idle"
  BY <1>1 DEF NoEvent, FrameEvents
<1> QED BY <1>1, <1>2, <1>6, <1>7, FramesInv

(* The other events. *)
LEMMA EventsInv ==
  ASSUME XInv, Events
  PROVE  XInv' /\ FramesKept
<1>1. CASE BranchToLabel
  <2>1. /\ event.type = "branch" /\ ret = "run" /\ event' = NoEvent
        /\ UNCHANGED <<frames, restarts, nrestarts, bottom, ret>>
    BY <1>1 DEF BranchToLabel, Running
  <2>2. Slot = RestartNone
    BY <2>1, SlotEmpty
  <2>3. event'.type \notin FrameEvents /\ ret' # "idle"
    BY <2>1 DEF NoEvent, FrameEvents
  <2> QED BY <2>1, <2>2, <2>3, KeepInv DEF FramesKept
<1>2. CASE UncaughtException
  <2>1. /\ event.type = "exception" /\ ret' = "trap"
        /\ UNCHANGED <<frames, restarts, nrestarts, bottom, event, p, cur>>
    BY <1>2 DEF UncaughtException, Running, Trap
  <2>2. event'.type \in FrameEvents => Len(frames) > bottom
    BY <2>1 DEF XInv, FramesOK
  <2> QED BY <2>1, <2>2, KeepInv DEF FramesKept
<1>3. CASE Finish
  <2>1. /\ ret' = "done" /\ UNCHANGED <<frames, restarts, nrestarts, bottom, event, p, cur>>
    BY <1>3 DEF Finish, stacks
  <2>2. event'.type \in FrameEvents => Len(frames) > bottom
    BY <2>1 DEF XInv, FramesOK
  <2> QED BY <2>1, <2>2, KeepInv DEF FramesKept
<1>4. CASE ReturnToHostfunc
  <2>1. frames' = frames
    BY <1>4 DEF ReturnToHostfunc
  <2> QED BY <1>4, <2>1, ReturnToHostfuncInv DEF FramesKept
<1> QED BY <1>1, <1>2, <1>3, <1>4, CallWasmInv, ReturnCallInv, BranchToFunctionInv,
           CatchExceptionInv DEF Events

(* What a host function does. *)
LEMMA HostInv ==
  ASSUME XInv, Host
  PROVE  XInv' /\ FramesKept
<1>1. event.type = "call" /\ event.func \in HostFuncs /\ ret = "run"
  BY DEF Host, HostReturn, HostTrap, HostRestart, HostNoRoom, HostCall, HostForward,
         HostPrealloc, InHost, Running
<1>2. CASE HostReturn
  <2>1. /\ restarts' = [Slots EXCEPT ![nrestarts + 1] = RestartNone] /\ event' = NoEvent
        /\ UNCHANGED <<frames, nrestarts, bottom, ret>>
    BY <1>2 DEF HostReturn
  <2>2. event'.type \notin FrameEvents /\ ret' # "idle"
    BY <1>1, <2>1 DEF NoEvent, FrameEvents
  <2> QED BY <2>1, <2>2, SlotInv DEF FramesKept
<1>3. CASE HostTrap
  <2>1. /\ restarts' = [Slots EXCEPT ![nrestarts + 1] = RestartNone] /\ ret' = "trap"
        /\ UNCHANGED <<frames, nrestarts, bottom, event>>
    BY <1>3 DEF HostTrap, Trap
  <2>2. event'.type \notin FrameEvents
    BY <1>1, <2>1 DEF FrameEvents
  <2> QED BY <2>1, <2>2, SlotInv DEF FramesKept
<1>4. CASE HostRestart
  <2>1. PICK r \in {RestartNone, RestartTimer(event.func, 0)} :
          restarts' = [Slots EXCEPT ![nrestarts + 1] = r]
    BY <1>4 DEF HostRestart
  <2>2. ret' = "restart" /\ UNCHANGED <<frames, nrestarts, bottom, event>>
    BY <1>4 DEF HostRestart
  <2>3. event'.type \notin FrameEvents
    BY <1>1, <2>2 DEF FrameEvents
  <2>4. \/ r = RestartNone
        \/ /\ event'.type = "call" /\ event'.func \in HostFuncs
           /\ r.type # "none" /\ r.func = event'.func
    BY <1>1, <2>1, <2>2 DEF RestartTimer
  <2>5. XInv'
    BY <2>1, <2>2, <2>3, <2>4, SlotInv
  <2> QED BY <2>2, <2>5 DEF FramesKept
<1>5. CASE HostNoRoom
  <2>1. /\ ret' = "trap" /\ UNCHANGED <<frames, restarts, nrestarts, bottom, event, p, cur>>
    BY <1>5 DEF HostNoRoom, Trap, stacks
  <2>2. event'.type \notin FrameEvents
    BY <1>1, <2>1 DEF FrameEvents
  <2> QED BY <2>1, <2>2, KeepInv DEF FramesKept
<1>6. ASSUME NEW g \in Funcs, HostCall(g) PROVE XInv' /\ FramesKept
  <2>1. frames' = frames
    BY <1>6 DEF HostCall
  <2> QED BY <1>6, <2>1, HostCallInv DEF FramesKept
<1>7. ASSUME NEW g \in Funcs, HostForward(g) PROVE XInv' /\ FramesKept
  <2>1. /\ ret' = "restart" /\ event' = CallEvent(g) /\ Slot.type = "none"
        /\ UNCHANGED <<frames, restarts, nrestarts, bottom>>
    BY <1>7 DEF HostForward
  <2>2. event'.type \notin FrameEvents
    BY <2>1 DEF CallEvent, FrameEvents
  <2>3. Slot = RestartNone
    BY <1>1, <2>1 DEF XInv, SlotOK
  <2> QED BY <2>1, <2>2, <2>3, KeepInv DEF FramesKept
<1> QED BY <1>2, <1>3, <1>4, <1>5, <1>6, <1>7 DEF Host

(* An instruction that may be restarted keeps its deadline in the slot and
   clears it when it ends. *)
LEMMA WaitInv ==
  ASSUME XInv, ExecWait \/ ExecWaitRestart \/ ExecWaitTrap
  PROVE  XInv' /\ FramesKept
<1>1. Len(frames) > bottom /\ ret = "run" /\ UNCHANGED <<frames, nrestarts, bottom>>
  BY DEF ExecWait, ExecWaitRestart, ExecWaitTrap, Waiting, Running, stacks
<1>2. CASE ExecWait \/ ExecWaitTrap
  <2>1. /\ restarts' = [Slots EXCEPT ![nrestarts + 1] = RestartNone]
        /\ ret' # "idle"
    BY <1>1, <1>2 DEF ExecWait, ExecWaitTrap, Trap
  <2> QED BY <1>1, <2>1, SlotInv DEF FramesKept
<1>3. CASE ExecWaitRestart
  <2>1. PICK r \in {RestartNone, RestartTimer(cur, ImmediatePc)} :
          restarts' = [Slots EXCEPT ![nrestarts + 1] = r]
    BY <1>3 DEF ExecWaitRestart
  <2>2. /\ ret' = "restart" /\ event' = RestartInsnEvent
        /\ p' = ImmediatePc /\ cur' = cur
    BY <1>3 DEF ExecWaitRestart
  <2>3. \/ r = RestartNone
        \/ event'.type = "restart_insn" /\ r = RestartTimer(cur', p')
    BY <2>1, <2>2 DEF RestartInsnEvent
  <2>4. XInv'
    BY <1>1, <2>1, <2>2, <2>3, SlotInv
  <2> QED BY <1>1, <2>4 DEF FramesKept
<1> QED BY <1>2, <1>3

(* The other instructions leave both alone; some schedule an event. *)
LEMMA InstructionsInv ==
  ASSUME XInv, Instructions
  PROVE  XInv' /\ FramesKept
<1> DEFINE Quiet == /\ Len(frames) > bottom /\ event.type = "none" /\ ret = "run"
                    /\ UNCHANGED <<frames, restarts, nrestarts, bottom>>
                    /\ ret' # "idle"
<1>1. ASSUME Quiet PROVE XInv' /\ FramesKept
  <2>1. Slot = RestartNone
    BY <1>1, SlotEmpty
  <2> QED BY <1>1, <2>1, KeepInv DEF FramesKept
<1>2. ASSUME NEW n, NEW e, NEW ops, Executing(ops), Schedule(n, e) PROVE Quiet
  BY <1>2 DEF Executing, Schedule, Running
<1>3. ASSUME NEW s, NEW ops, Executing(ops), Operate(s) PROVE Quiet
  BY <1>3 DEF Executing, Operate, Running
<1>4. CASE ExecBlock \/ ExecIf \/ ExecEnd \/ ExecThrow \/ ExecLocalSet \/ TrapInsn
  <2>1. Quiet
    BY <1>4 DEF ExecBlock, ExecIf, ExecEnd, ExecThrow, ExecLocalSet, TrapInsn, Executing,
                Running, Trap, stacks
  <2> QED BY <1>1, <2>1
<1> HIDE DEF Quiet
<1>5. CASE \/ ExecElse \/ ExecBr \/ ExecBrIf \/ ExecBrTable \/ ExecReturn \/ ExecCall
           \/ ExecReturnCall \/ ExecThrowRef \/ ExecCallIndirect \/ ExecReturnCallIndirect
  <2>1. Quiet
    BY <1>2, <1>5 DEF ExecElse, ExecBr, ExecBrIf, ExecBrTable, ExecReturn, ExecCall,
                      ExecReturnCall, ExecThrowRef, ExecCallIndirect, ExecReturnCallIndirect
  <2> QED BY <1>1, <2>1
<1>6. CASE ExecConst \/ ExecLocalGet \/ ExecDrop \/ ExecSelect
  <2>1. Quiet
    BY <1>3, <1>6 DEF ExecConst, ExecLocalGet, ExecDrop, ExecSelect
  <2> QED BY <1>1, <2>1
<1>7. CASE ExecWait \/ ExecWaitRestart \/ ExecWaitTrap
  BY <1>7, WaitInv
<1> QED BY <1>4, <1>5, <1>6, <1>7 DEF Instructions

(* The embedder starts, continues and interrupts the execution. *)
LEMMA EmbedderInv ==
  ASSUME XInv, Embedder
  PROVE  XInv' /\ FramesKept
<1>1. CASE Invoke
  <2>1. /\ event.type = "none" /\ ret' # "idle"
        /\ UNCHANGED <<frames, restarts, nrestarts, bottom>>
        /\ event' = CallEvent(Start) \/ event' = event
    BY <1>1 DEF Invoke, Trap, XInv, FramesOK
  <2>2. Slot = RestartNone
    BY <2>1, SlotEmpty
  <2>3. event'.type \notin FrameEvents
    BY <2>1 DEF CallEvent, FrameEvents
  <2> QED BY <2>1, <2>2, <2>3, KeepInv DEF FramesKept
<1>2. CASE Continue \/ Interrupt
  <2>1. /\ ret' # "idle" /\ UNCHANGED <<frames, restarts, nrestarts, bottom, event, p, cur>>
    BY <1>2 DEF Continue, Interrupt, stacks
  <2>2. event'.type \in FrameEvents => Len(frames) > bottom
    BY <2>1 DEF XInv, FramesOK
  <2> QED BY <2>1, <2>2, KeepInv DEF FramesKept
<1> QED BY <1>1, <1>2 DEF Embedder

-----------------------------------------------------------------------------
(* Nothing has been executed initially. *)
LEMMA InitXInv == Init => XInv
<1> SUFFICES ASSUME Init PROVE XInv
  OBVIOUS
<1>1. /\ frames = <<>> /\ restarts = <<>> /\ nrestarts = 0 /\ bottom = 0 /\ event = NoEvent
  BY DEF Init, EInit
<1>2. <<>> \in Seq({}) /\ Len(<<>>) = 0
  BY EmptySeq
<1>3. IsSeq(frames) /\ IsSeq(restarts)
  BY <1>1, <1>2, SeqOverRange
<1>4. FramesOK
  BY <1>1, <1>2, <1>3 DEF FramesOK, NoEvent, FrameEvents
<1>5. RestartsOK
  BY <1>1, <1>2, <1>3 DEF RestartsOK
<1>6. Slot = RestartNone
  BY <1>1, <1>2, <1>5, SlotFacts
<1> QED BY <1>4, <1>5, <1>6 DEF XInv, SlotOK

(* Every step keeps the invariant, and the frames below the host function. *)
LEMMA StepXInv ==
  ASSUME XInv, [Next]_vars
  PROVE  XInv' /\ FramesKept
<1>1. CASE UNCHANGED evars
  <2>1. UNCHANGED <<frames, restarts, nrestarts, bottom, event, p, cur, ret>>
    BY <1>1 DEF evars, stacks
  <2>2. event'.type \in FrameEvents => Len(frames) > bottom
    BY <2>1 DEF XInv, FramesOK
  <2> QED BY <2>1, <2>2, KeepInv DEF FramesKept
<1>2. CASE Load \/ Terminated \/ UNCHANGED vars
  <2>1. UNCHANGED evars
    BY <1>2 DEF Load, Terminated, vars
  <2> QED BY <1>1, <2>1
<1> QED BY <1>2, EventsInv, HostInv, InstructionsInv, EmbedderInv DEF Next

(* The inductive invariant holds always. *)
THEOREM XInvariance == Spec => []XInv
<1>1. XInv /\ [Next]_vars => XInv'
  BY StepXInv
<1> QED BY InitXInv, <1>1, PTL DEF Spec

(* Restart information is found only by the one who saved it, for any program,
   any nesting of host functions and any number of restarts. *)
THEOREM RestartInfoIsPrivate == Spec => []RestartInfoIsOwn
<1>1. XInv => RestartInfoIsOwn
  <2> SUFFICES ASSUME XInv PROVE RestartInfoIsOwn
    OBVIOUS
  <2>1. ASSUME Running("none") PROVE Slot.type = "none"
    BY <2>1 DEF XInv, SlotOK, Running, RestartNone
  <2>2. ASSUME InHost, Slot.type # "none" PROVE Slot.func = event.func
    BY <2>2 DEF XInv, SlotOK, InHost, Running, RestartNone
  <2>3. ASSUME Running("restart_insn")
        PROVE  Slot \in {RestartNone, RestartTimer(cur, ImmediatePc)}
    BY <2>3 DEF XInv, SlotOK, Running, ImmediatePc
  <2> QED BY <2>1, <2>2, <2>3 DEF RestartInfoIsOwn
<1> QED BY <1>1, XInvariance, PTL

(* No return, tail call or exception touches the frames below a host function
   before the host function itself returns. *)
THEOREM HostFramesAreKept == Spec => HostFramesKept
<1>1. XInv /\ [Next]_vars => [/\ Len(frames') >= bottom'
                              /\ Take(frames', bottom) = Take(frames, bottom)]_vars
  <2> SUFFICES ASSUME XInv, [Next]_vars
               PROVE  /\ Len(frames') >= bottom'
                      /\ Take(frames', bottom) = Take(frames, bottom)
    OBVIOUS
  <2>1. XInv' /\ FramesKept
    BY StepXInv
  <2>2. IsSeq(frames') /\ bottom' \in 0..Len(frames')
    BY <2>1 DEF XInv, FramesOK
  <2>3. Len(frames') \in Nat
    BY <2>2, LenProperties DEF IsSeq
  <2> QED BY <2>1, <2>2, <2>3 DEF FramesKept
<1> QED BY <1>1, XInvariance, PTL DEF Spec, HostFramesKept
=============================================================================
