--------------------------- MODULE BAEventsProofs ---------------------------
(***************************************************************************)
(* Proofs about BAEvents, for any number of consumers and events and any   *)
(* size of the queue.  The argument: an event nobody has shared is in one  *)
(* place at a time (PlaceInv), so the thread that has passed the test of   *)
(* freed is alone with it until it has set freed (LifeInv).                *)
(***************************************************************************)
EXTENDS BAEvents, FiniteSetTheorems, TLAPS

\* What a thread is doing with which event.
StageInv ==
  \A t \in Threads :
    /\ pc[t] = "idle" <=> current[t] = NoEvent
    /\ current[t] /= NoEvent => current[t] \in mapped
    /\ pc[t] = "deliver" => t = "worker"
    /\ pc[t] = "read" => t \in Consumers
    /\ t \in Consumers /\ current[t] /= NoEvent => current[t] \in holds[t]
    /\ pc[t] \in {"delete", "empty"} => current[t] \in freed

\* Where an event is.
PlaceInv ==
  /\ \A i, j \in DOMAIN eventQueue : eventQueue[i] = eventQueue[j] => i = j
  /\ \A e \in Events :
       /\ Queued(e) =>
            /\ e \in mapped \ (shared \union finalized)
            /\ \A t \in Threads : current[t] /= e
            /\ \A c \in Consumers : e \notin holds[c]
       /\ current["worker"] = e =>
            /\ e \notin shared \union finalized
            /\ \A c \in Consumers : e \notin holds[c]
       /\ current["finalizer"] = e => e \in finalized
       /\ e \in finalized =>
            /\ \A c \in Consumers : e \notin holds[c]
            /\ \A t \in Threads : current[t] = e => t = "finalizer"
       /\ \A c \in Consumers : e \in holds[c] \union buffers[c] => e \in mapped
       /\ e \in shared => e \in mapped
       /\ e \notin shared => \A c, d \in Consumers : e \in holds[c] \intersect holds[d] => c = d

\* How far the life of an event has got.
LifeInv ==
  \A e \in Events :
    /\ native[e] = "pending" => e \notin mapped
    /\ e \in lost => e \notin mapped /\ native[e] = "live"
    /\ native[e] = "live" => e \in lost \union mapped
    /\ native[e] = "deleted" <=> deletes[e] > 0
    /\ e \in freed => native[e] = "deleted" \/ \E t \in Threads : current[t] = e /\ pc[t] = "delete"
    /\ e \in finalized /\ native[e] = "live" => current["finalizer"] = e
    /\ e \notin shared =>
         /\ deletes[e] <= 1
         /\ e \in mapped \ freed => native[e] = "live"
         /\ \A t \in Threads : current[t] = e =>
              /\ pc[t] \in {"set", "read"} => e \notin freed
              /\ pc[t] = "delete" => native[e] = "live"

IInv == TypeOK /\ StageInv /\ PlaceInv /\ LifeInv

LEMMA ThreadFacts ==
  /\ "worker" \in Threads /\ "finalizer" \in Threads
  /\ "worker" \notin Consumers /\ "finalizer" \notin Consumers
  /\ Consumers \subseteq Threads
  /\ NoEvent \notin Events /\ Events \subseteq Nat
BY ConsumersAssumption, SizesAssumption DEF Threads, Events, NoEvent

\* An event that is not shared is in the hands of one thread at a time.
LEMMA UniqueUser ==
  ASSUME StageInv, PlaceInv, NEW e \in Events, e \notin shared,
         NEW t \in Threads, NEW u \in Threads, current[t] = e, current[u] = e
  PROVE  t = u
BY ThreadFacts DEF StageInv, PlaceInv, Threads

LEMMA IInvInit == Init => IInv
<1> SUFFICES ASSUME Init PROVE IInv
  OBVIOUS
<1>1. /\ eventQueue = <<>> /\ \A t \in Threads : pc[t] = "idle" /\ current[t] = NoEvent
      /\ \A e \in Events : native[e] = "pending" /\ deletes[e] = 0 /\ ~Queued(e)
      /\ \A c \in Consumers : holds[c] = {} /\ buffers[c] = {}
  BY DEF Init, Queued
<1>2. TypeOK
  <2>1. eventQueue \in Seq(Events) /\ Len(eventQueue) <= QueueSize
    BY SizesAssumption DEF Init
  <2> QED
    BY <2>1 DEF Init, TypeOK
<1>3. StageInv /\ PlaceInv /\ LifeInv
  BY <1>1, ThreadFacts DEF Init, StageInv, PlaceInv, LifeInv
<1> QED
  BY <1>2, <1>3 DEF IInv

(***************************************************************************)
(* Every action preserves IInv.  Those that follow leave the queue alone,  *)
(* so that Queued does not change; in each, the four parts of IInv.        *)
(***************************************************************************)

LEMMA IInvSetup ==
  ASSUME IInv, CreateNative \/ StoreInstance \/ SetCallback
  PROVE  IInv'
<1>1. \A q \in Events : Queued(q)' = Queued(q)
  BY DEF Queued, CreateNative, StoreInstance, SetCallback, nativeVars, objectVars, threadVars, referenceVars
<1>2. TypeOK'
  BY ThreadFacts DEF IInv, TypeOK, CreateNative, StoreInstance, SetCallback, nativeVars, objectVars, threadVars, referenceVars
<1>3. StageInv'
  BY ThreadFacts DEF IInv, TypeOK, StageInv, PlaceInv, CreateNative, StoreInstance, SetCallback, nativeVars, objectVars, threadVars, referenceVars
<1>4. PlaceInv'
  BY <1>1, ThreadFacts, UniqueUser DEF IInv, TypeOK, StageInv, PlaceInv, LifeInv, CreateNative, StoreInstance, SetCallback, nativeVars, objectVars, threadVars, referenceVars
<1>5. LifeInv'
  BY ThreadFacts, UniqueUser DEF IInv, TypeOK, StageInv, PlaceInv, LifeInv, CreateNative, StoreInstance, SetCallback, nativeVars, objectVars, threadVars, referenceVars
<1> QED
  BY <1>2, <1>3, <1>4, <1>5 DEF IInv

LEMMA IInvDefaultCallback ==
  ASSUME IInv, NEW e \in Events, DefaultCallback(e)
  PROVE  IInv'
<1>1. \A q \in Events : Queued(q)' = Queued(q)
  BY DEF Queued, DefaultCallback, NextEvent, DeleteNative, setupVars, objectVars, threadVars, referenceVars
<1>2. TypeOK'
  BY ThreadFacts DEF IInv, TypeOK, DefaultCallback, NextEvent, DeleteNative, setupVars, objectVars, threadVars, referenceVars
<1>3. StageInv'
  BY ThreadFacts DEF IInv, TypeOK, StageInv, PlaceInv, DefaultCallback, NextEvent, DeleteNative, setupVars, objectVars, threadVars, referenceVars
<1>4. PlaceInv'
  BY <1>1, ThreadFacts, UniqueUser DEF IInv, TypeOK, StageInv, PlaceInv, LifeInv, DefaultCallback, NextEvent, DeleteNative, setupVars, objectVars, threadVars, referenceVars
<1>5. LifeInv'
  BY ThreadFacts, UniqueUser DEF IInv, TypeOK, StageInv, PlaceInv, LifeInv, DefaultCallback, NextEvent, DeleteNative, setupVars, objectVars, threadVars, referenceVars
<1> QED
  BY <1>2, <1>3, <1>4, <1>5 DEF IInv

LEMMA IInvAttachFails ==
  ASSUME IInv, NEW e \in Events, AttachFails(e)
  PROVE  IInv'
<1>1. \A q \in Events : Queued(q)' = Queued(q)
  BY DEF Queued, AttachFails, NextEvent, setupVars, objectVars, threadVars
<1>2. TypeOK'
  BY ThreadFacts DEF IInv, TypeOK, AttachFails, NextEvent, setupVars, objectVars, threadVars
<1>3. StageInv'
  BY ThreadFacts DEF IInv, TypeOK, StageInv, PlaceInv, AttachFails, NextEvent, setupVars, objectVars, threadVars
<1>4. PlaceInv'
  BY <1>1, ThreadFacts, UniqueUser DEF IInv, TypeOK, StageInv, PlaceInv, LifeInv, AttachFails, NextEvent, setupVars, objectVars, threadVars
<1>5. LifeInv'
  BY ThreadFacts, UniqueUser DEF IInv, TypeOK, StageInv, PlaceInv, LifeInv, AttachFails, NextEvent, setupVars, objectVars, threadVars
<1> QED
  BY <1>2, <1>3, <1>4, <1>5 DEF IInv

LEMMA IInvEventReceived ==
  ASSUME IInv, NEW e \in Events, EventReceived(e)
  PROVE  IInv'
<1>1. \A q \in Events : Queued(q)' = Queued(q)
  BY DEF Queued, EventReceived, NextEvent, Goes, setupVars, threadVars
<1>2. TypeOK'
  <2>1. native' \in [Events -> {"pending", "live", "deleted"}]
    BY DEF IInv, TypeOK, EventReceived
  <2>2. pc' \in [Threads -> {"idle", "deliver", "check", "set", "delete", "empty", "read"}]
    BY DEF IInv, TypeOK, EventReceived, Goes, threadVars
  <2>3. current' \in [Threads -> Events \union {NoEvent}]
    BY DEF IInv, TypeOK, EventReceived, Goes, threadVars
  <2>4. mapped \subseteq mapped' /\ mapped' \subseteq Events /\ lost' \subseteq Events
    BY DEF IInv, TypeOK, EventReceived
  <2> QED
    BY <2>1, <2>2, <2>3, <2>4 DEF IInv, TypeOK, EventReceived, setupVars
<1>3. StageInv'
  BY ThreadFacts DEF IInv, TypeOK, StageInv, PlaceInv, EventReceived, NextEvent, Goes, setupVars, threadVars
<1>4. PlaceInv'
  BY <1>1, ThreadFacts, UniqueUser DEF IInv, TypeOK, StageInv, PlaceInv, LifeInv, EventReceived, NextEvent, Goes, setupVars, threadVars
<1>5. LifeInv'
  BY ThreadFacts, UniqueUser DEF IInv, TypeOK, StageInv, PlaceInv, LifeInv, EventReceived, NextEvent, Goes, setupVars, threadVars
<1> QED
  BY <1>2, <1>3, <1>4, <1>5 DEF IInv

LEMMA IInvDiscard ==
  ASSUME IInv, Discard
  PROVE  IInv'
<1>1. \A q \in Events : Queued(q)' = Queued(q)
  BY DEF Queued, Discard, Goes, setupVars, nativeVars, objectVars, referenceVars
<1>2. TypeOK'
  BY ThreadFacts DEF IInv, TypeOK, Discard, Goes, setupVars, nativeVars, objectVars, referenceVars
<1>3. StageInv'
  BY ThreadFacts DEF IInv, TypeOK, StageInv, PlaceInv, Discard, Goes, setupVars, nativeVars, objectVars, referenceVars
<1>4. PlaceInv'
  BY <1>1, ThreadFacts, UniqueUser DEF IInv, TypeOK, StageInv, PlaceInv, LifeInv, Discard, Goes, setupVars, nativeVars, objectVars, referenceVars
<1>5. LifeInv'
  BY ThreadFacts, UniqueUser DEF IInv, TypeOK, StageInv, PlaceInv, LifeInv, Discard, Goes, setupVars, nativeVars, objectVars, referenceVars
<1> QED
  BY <1>2, <1>3, <1>4, <1>5 DEF IInv

LEMMA IInvFreeChecks ==
  ASSUME IInv, NEW t \in Threads, FreeChecks(t)
  PROVE  IInv'
<1>1. \A q \in Events : Queued(q)' = Queued(q)
  BY DEF Queued, FreeChecks, Goes, setupVars, nativeVars, objectVars, referenceVars
<1>2. TypeOK'
  BY ThreadFacts DEF IInv, TypeOK, FreeChecks, Goes, setupVars, nativeVars, objectVars, referenceVars
<1>3. StageInv'
  BY ThreadFacts DEF IInv, TypeOK, StageInv, PlaceInv, FreeChecks, Goes, setupVars, nativeVars, objectVars, referenceVars
<1>4. PlaceInv'
  BY <1>1, ThreadFacts, UniqueUser DEF IInv, TypeOK, StageInv, PlaceInv, LifeInv, FreeChecks, Goes, setupVars, nativeVars, objectVars, referenceVars
<1>5. LifeInv'
  BY ThreadFacts, UniqueUser DEF IInv, TypeOK, StageInv, PlaceInv, LifeInv, FreeChecks, Goes, setupVars, nativeVars, objectVars, referenceVars
<1> QED
  BY <1>2, <1>3, <1>4, <1>5 DEF IInv

LEMMA IInvFreeSets ==
  ASSUME IInv, NEW t \in Threads, FreeSets(t)
  PROVE  IInv'
<1>1. \A q \in Events : Queued(q)' = Queued(q)
  BY DEF Queued, FreeSets, Goes, setupVars, nativeVars, referenceVars
<1>0. current[t] \in mapped /\ current[t] \in Events /\ (pc[t] = "empty" => current[t] \in freed)
  BY ThreadFacts DEF IInv, TypeOK, StageInv, FreeSets
<1>2. TypeOK'
  BY <1>0, ThreadFacts DEF IInv, TypeOK, FreeSets, Goes, setupVars, nativeVars, referenceVars
<1>3. StageInv'
  BY ThreadFacts DEF IInv, TypeOK, StageInv, PlaceInv, FreeSets, Goes, setupVars, nativeVars, referenceVars
<1>4. PlaceInv'
  BY <1>1, ThreadFacts, UniqueUser DEF IInv, TypeOK, StageInv, PlaceInv, LifeInv, FreeSets, Goes, setupVars, nativeVars, referenceVars
<1>5. LifeInv'
  BY ThreadFacts, UniqueUser DEF IInv, TypeOK, StageInv, PlaceInv, LifeInv, FreeSets, Goes, setupVars, nativeVars, referenceVars
<1> QED
  BY <1>2, <1>3, <1>4, <1>5 DEF IInv

LEMMA IInvFreeDeletes ==
  ASSUME IInv, NEW t \in Threads, FreeDeletes(t)
  PROVE  IInv'
<1>1. \A q \in Events : Queued(q)' = Queued(q)
  BY DEF Queued, FreeDeletes, DeleteNative, Goes, setupVars, objectVars, referenceVars
<1>0. current[t] \in mapped /\ current[t] \in Events /\ (pc[t] = "empty" => current[t] \in freed)
  BY ThreadFacts DEF IInv, TypeOK, StageInv, FreeDeletes
<1>2. TypeOK'
  <2>1. native' \in [Events -> {"pending", "live", "deleted"}]
    BY DEF IInv, TypeOK, FreeDeletes, DeleteNative
  <2>2. deletes' \in [Events -> Nat]
    BY <1>0 DEF IInv, TypeOK, FreeDeletes, DeleteNative
  <2>3. pc' \in [Threads -> {"idle", "deliver", "check", "set", "delete", "empty", "read"}]
    BY DEF IInv, TypeOK, FreeDeletes, Goes
  <2>4. current' \in [Threads -> Events \union {NoEvent}]
    BY <1>0 DEF IInv, TypeOK, FreeDeletes, Goes
  <2> QED
    BY <2>1, <2>2, <2>3, <2>4 DEF IInv, TypeOK, FreeDeletes, setupVars, objectVars, referenceVars
<1>3. StageInv'
  BY ThreadFacts DEF IInv, TypeOK, StageInv, PlaceInv, FreeDeletes, DeleteNative, Goes, setupVars, objectVars, referenceVars
<1>4. PlaceInv'
  BY <1>1, ThreadFacts, UniqueUser DEF IInv, TypeOK, StageInv, PlaceInv, LifeInv, FreeDeletes, DeleteNative, Goes, setupVars, objectVars, referenceVars
<1>5. LifeInv'
  BY ThreadFacts, UniqueUser DEF IInv, TypeOK, StageInv, PlaceInv, LifeInv, FreeDeletes, DeleteNative, Goes, setupVars, objectVars, referenceVars
<1> QED
  BY <1>2, <1>3, <1>4, <1>5 DEF IInv

LEMMA IInvFreeEmpties ==
  ASSUME IInv, NEW t \in Threads, FreeEmpties(t)
  PROVE  IInv'
<1>1. \A q \in Events : Queued(q)' = Queued(q)
  BY DEF Queued, FreeEmpties, Goes, setupVars, nativeVars, referenceVars
<1>0. current[t] \in mapped /\ current[t] \in Events /\ (pc[t] = "empty" => current[t] \in freed)
  BY ThreadFacts DEF IInv, TypeOK, StageInv, FreeEmpties
<1>2. TypeOK'
  BY <1>0, ThreadFacts DEF IInv, TypeOK, FreeEmpties, Goes, setupVars, nativeVars, referenceVars
<1>3. StageInv'
  BY ThreadFacts DEF IInv, TypeOK, StageInv, PlaceInv, FreeEmpties, Goes, setupVars, nativeVars, referenceVars
<1>4. PlaceInv'
  BY <1>1, ThreadFacts, UniqueUser DEF IInv, TypeOK, StageInv, PlaceInv, LifeInv, FreeEmpties, Goes, setupVars, nativeVars, referenceVars
<1>5. LifeInv'
  BY ThreadFacts, UniqueUser DEF IInv, TypeOK, StageInv, PlaceInv, LifeInv, FreeEmpties, Goes, setupVars, nativeVars, referenceVars
<1> QED
  BY <1>2, <1>3, <1>4, <1>5 DEF IInv

LEMMA IInvGetNextEventDirect ==
  ASSUME IInv, NEW c \in Consumers, NEW e \in Events, GetNextEventDirect(c, e)
  PROVE  IInv'
<1>1. \A q \in Events : Queued(q)' = Queued(q)
  BY DEF Queued, GetNextEventDirect, setupVars, threadVars
<1>2. TypeOK'
  BY ThreadFacts DEF IInv, TypeOK, GetNextEventDirect, setupVars, threadVars
<1>3. StageInv'
  BY ThreadFacts DEF IInv, TypeOK, StageInv, PlaceInv, GetNextEventDirect, setupVars, threadVars
<1>4. PlaceInv'
  BY <1>1, ThreadFacts, UniqueUser DEF IInv, TypeOK, StageInv, PlaceInv, LifeInv, GetNextEventDirect, setupVars, threadVars
<1>5. LifeInv'
  BY ThreadFacts, UniqueUser DEF IInv, TypeOK, StageInv, PlaceInv, LifeInv, GetNextEventDirect, setupVars, threadVars
<1> QED
  BY <1>2, <1>3, <1>4, <1>5 DEF IInv

LEMMA IInvShare ==
  ASSUME IInv, NEW c \in Consumers, NEW d \in Consumers, NEW e \in Events, Share(c, d, e)
  PROVE  IInv'
<1>1. \A q \in Events : Queued(q)' = Queued(q)
  BY DEF Queued, Share, setupVars, nativeVars, objectVars, threadVars
<1>2. TypeOK'
  BY ThreadFacts DEF IInv, TypeOK, Share, setupVars, nativeVars, objectVars, threadVars
<1>3. StageInv'
  BY ThreadFacts DEF IInv, TypeOK, StageInv, PlaceInv, Share, setupVars, nativeVars, objectVars, threadVars
<1>4. PlaceInv'
  BY <1>1, ThreadFacts, UniqueUser DEF IInv, TypeOK, StageInv, PlaceInv, LifeInv, Share, setupVars, nativeVars, objectVars, threadVars
<1>5. LifeInv'
  BY ThreadFacts, UniqueUser DEF IInv, TypeOK, StageInv, PlaceInv, LifeInv, Share, setupVars, nativeVars, objectVars, threadVars
<1> QED
  BY <1>2, <1>3, <1>4, <1>5 DEF IInv

LEMMA IInvCallFree ==
  ASSUME IInv, NEW c \in Consumers, NEW e \in Events, CallFree(c, e)
  PROVE  IInv'
<1>1. \A q \in Events : Queued(q)' = Queued(q)
  BY DEF Queued, CallFree, Goes, setupVars, nativeVars, objectVars, referenceVars
<1>2. TypeOK'
  BY ThreadFacts DEF IInv, TypeOK, CallFree, Goes, setupVars, nativeVars, objectVars, referenceVars
<1>3. StageInv'
  BY ThreadFacts DEF IInv, TypeOK, StageInv, PlaceInv, CallFree, Goes, setupVars, nativeVars, objectVars, referenceVars
<1>4. PlaceInv'
  BY <1>1, ThreadFacts, UniqueUser DEF IInv, TypeOK, StageInv, PlaceInv, LifeInv, CallFree, Goes, setupVars, nativeVars, objectVars, referenceVars
<1>5. LifeInv'
  BY ThreadFacts, UniqueUser DEF IInv, TypeOK, StageInv, PlaceInv, LifeInv, CallFree, Goes, setupVars, nativeVars, objectVars, referenceVars
<1> QED
  BY <1>2, <1>3, <1>4, <1>5 DEF IInv

LEMMA IInvStartRead ==
  ASSUME IInv, NEW c \in Consumers, NEW e \in Events, StartRead(c, e)
  PROVE  IInv'
<1>1. \A q \in Events : Queued(q)' = Queued(q)
  BY DEF Queued, StartRead, Goes, setupVars, nativeVars, objectVars, referenceVars
<1>2. TypeOK'
  BY ThreadFacts DEF IInv, TypeOK, StartRead, Goes, setupVars, nativeVars, objectVars, referenceVars
<1>3. StageInv'
  BY ThreadFacts DEF IInv, TypeOK, StageInv, PlaceInv, StartRead, Goes, setupVars, nativeVars, objectVars, referenceVars
<1>4. PlaceInv'
  BY <1>1, ThreadFacts, UniqueUser DEF IInv, TypeOK, StageInv, PlaceInv, LifeInv, StartRead, Goes, setupVars, nativeVars, objectVars, referenceVars
<1>5. LifeInv'
  BY ThreadFacts, UniqueUser DEF IInv, TypeOK, StageInv, PlaceInv, LifeInv, StartRead, Goes, setupVars, nativeVars, objectVars, referenceVars
<1> QED
  BY <1>2, <1>3, <1>4, <1>5 DEF IInv

LEMMA IInvEndRead ==
  ASSUME IInv, NEW c \in Consumers, EndRead(c)
  PROVE  IInv'
<1>1. \A q \in Events : Queued(q)' = Queued(q)
  BY DEF Queued, EndRead, Goes, setupVars, nativeVars, objectVars, referenceVars
<1>2. TypeOK'
  BY ThreadFacts DEF IInv, TypeOK, EndRead, Goes, setupVars, nativeVars, objectVars, referenceVars
<1>3. StageInv'
  BY ThreadFacts DEF IInv, TypeOK, StageInv, PlaceInv, EndRead, Goes, setupVars, nativeVars, objectVars, referenceVars
<1>4. PlaceInv'
  BY <1>1, ThreadFacts, UniqueUser DEF IInv, TypeOK, StageInv, PlaceInv, LifeInv, EndRead, Goes, setupVars, nativeVars, objectVars, referenceVars
<1>5. LifeInv'
  BY ThreadFacts, UniqueUser DEF IInv, TypeOK, StageInv, PlaceInv, LifeInv, EndRead, Goes, setupVars, nativeVars, objectVars, referenceVars
<1> QED
  BY <1>2, <1>3, <1>4, <1>5 DEF IInv

LEMMA IInvBuffers ==
  ASSUME IInv, NEW c \in Consumers, NEW e \in Events, GetDirectData(c, e) \/ DropBuffer(c, e)
  PROVE  IInv'
<1>1. \A q \in Events : Queued(q)' = Queued(q)
  BY DEF Queued, GetDirectData, DropBuffer, setupVars, nativeVars, objectVars, threadVars
<1>2. TypeOK'
  <2>1. buffers' \in [Consumers -> SUBSET Events]
    <3>1. buffers \in [Consumers -> SUBSET Events]
      BY DEF IInv, TypeOK
    <3>2. CASE GetDirectData(c, e)
      BY <3>1, <3>2 DEF GetDirectData
    <3>3. CASE DropBuffer(c, e)
      BY <3>1, <3>3 DEF DropBuffer
    <3> QED
      BY <3>2, <3>3
  <2> QED
    BY <2>1 DEF IInv, TypeOK, GetDirectData, DropBuffer, setupVars, nativeVars, objectVars, threadVars
<1>3. StageInv'
  BY ThreadFacts DEF IInv, TypeOK, StageInv, PlaceInv, GetDirectData, DropBuffer, setupVars, nativeVars, objectVars, threadVars
<1>4. PlaceInv'
  BY <1>1, ThreadFacts, UniqueUser DEF IInv, TypeOK, StageInv, PlaceInv, LifeInv, GetDirectData, DropBuffer, setupVars, nativeVars, objectVars, threadVars
<1>5. LifeInv'
  BY ThreadFacts, UniqueUser DEF IInv, TypeOK, StageInv, PlaceInv, LifeInv, GetDirectData, DropBuffer, setupVars, nativeVars, objectVars, threadVars
<1> QED
  BY <1>2, <1>3, <1>4, <1>5 DEF IInv

LEMMA IInvForget ==
  ASSUME IInv, NEW c \in Consumers, NEW e \in Events, Forget(c, e)
  PROVE  IInv'
<1>1. \A q \in Events : Queued(q)' = Queued(q)
  BY DEF Queued, Forget, setupVars, nativeVars, objectVars, threadVars
<1>2. TypeOK'
  BY ThreadFacts DEF IInv, TypeOK, Forget, setupVars, nativeVars, objectVars, threadVars
<1>3. StageInv'
  BY ThreadFacts DEF IInv, TypeOK, StageInv, PlaceInv, Forget, setupVars, nativeVars, objectVars, threadVars
<1>4. PlaceInv'
  BY <1>1, ThreadFacts, UniqueUser DEF IInv, TypeOK, StageInv, PlaceInv, LifeInv, Forget, setupVars, nativeVars, objectVars, threadVars
<1>5. LifeInv'
  BY ThreadFacts, UniqueUser DEF IInv, TypeOK, StageInv, PlaceInv, LifeInv, Forget, setupVars, nativeVars, objectVars, threadVars
<1> QED
  BY <1>2, <1>3, <1>4, <1>5 DEF IInv

LEMMA IInvFinalize ==
  ASSUME IInv, NEW e \in Events, Finalize(e)
  PROVE  IInv'
<1>1. \A q \in Events : Queued(q)' = Queued(q)
  BY DEF Queued, Finalize, Referenced, Goes, setupVars, nativeVars, objectVars
<1>2. TypeOK'
  BY ThreadFacts DEF IInv, TypeOK, Finalize, Referenced, Goes, setupVars, nativeVars, objectVars
<1>3. StageInv'
  BY ThreadFacts DEF IInv, TypeOK, StageInv, PlaceInv, Finalize, Referenced, Goes, setupVars, nativeVars, objectVars
<1>4. PlaceInv'
  BY <1>1, ThreadFacts, UniqueUser DEF IInv, TypeOK, StageInv, PlaceInv, LifeInv, Finalize, Referenced, Goes, setupVars, nativeVars, objectVars
<1>5. LifeInv'
  BY ThreadFacts, UniqueUser DEF IInv, TypeOK, StageInv, PlaceInv, LifeInv, Finalize, Referenced, Goes, setupVars, nativeVars, objectVars
<1> QED
  BY <1>2, <1>3, <1>4, <1>5 DEF IInv

(***************************************************************************)
(* The two actions on the queue                                            *)
(***************************************************************************)

LEMMA IInvOffer ==
  ASSUME IInv, Offer
  PROVE  IInv'
<1>0. PICK e : e = current["worker"]
  OBVIOUS
<1>1. /\ e \in Events /\ e \in mapped /\ e \notin shared \union finalized
      /\ \A c \in Consumers : e \notin holds[c]
      /\ ~Queued(e)
      /\ \A t \in Threads : current[t] = e => t = "worker"
  BY <1>0, ThreadFacts, UniqueUser DEF IInv, TypeOK, StageInv, PlaceInv, Offer
<1>2. /\ eventQueue \in Seq(Events) /\ Len(eventQueue) \in Nat /\ DOMAIN eventQueue = 1..Len(eventQueue)
      /\ eventQueue' = eventQueue \/ (eventQueue' = Append(eventQueue, e) /\ Len(eventQueue) < QueueSize)
  BY <1>0 DEF IInv, TypeOK, Offer
<1>3. /\ eventQueue' \in Seq(Events) /\ Len(eventQueue') <= QueueSize
      /\ \A q \in Events : Queued(q)' => Queued(q) \/ q = e
      /\ \A i, j \in DOMAIN eventQueue' : eventQueue'[i] = eventQueue'[j] => i = j
  <2>1. CASE eventQueue' = eventQueue
    BY <1>2, <2>1 DEF IInv, TypeOK, PlaceInv, Queued
  <2>2. CASE eventQueue' = Append(eventQueue, e) /\ Len(eventQueue) < QueueSize
    <3>1. /\ DOMAIN eventQueue' = 1..(Len(eventQueue) + 1)
          /\ \A i \in 1..Len(eventQueue) : eventQueue'[i] = eventQueue[i]
          /\ eventQueue'[Len(eventQueue) + 1] = e
          /\ eventQueue' \in Seq(Events) /\ Len(eventQueue') = Len(eventQueue) + 1
      <4>1. eventQueue \in Seq(Events) /\ e \in Events /\ eventQueue' = Append(eventQueue, e)
        BY <1>1, <1>2, <2>2
      <4> QED
        BY <4>1
    <3>2. \A q \in Events : Queued(q)' => Queued(q) \/ q = e
      BY <1>2, <3>1 DEF Queued
    <3>3. \A i \in 1..Len(eventQueue) : eventQueue[i] /= e
      BY <1>1, <1>2 DEF Queued
    <3>4. \A i, j \in DOMAIN eventQueue' : eventQueue'[i] = eventQueue'[j] => i = j
      BY <1>2, <3>1, <3>3 DEF IInv, PlaceInv
    <3> QED
      <4>1. Len(eventQueue) \in Nat /\ Len(eventQueue) < QueueSize /\ QueueSize \in Nat
        BY <1>2, <2>2, SizesAssumption
      <4>2. Len(eventQueue') <= QueueSize
        BY <3>1, <4>1
      <4> QED
        BY <3>1, <3>2, <3>4, <4>2
  <2> QED
    BY <1>2, <2>1, <2>2
<1>4. /\ Goes("worker", "idle", NoEvent)
      /\ UNCHANGED <<setupVars, nativeVars, objectVars, holds, buffers, shared, finalized, lost>>
  BY DEF Offer
<1>5. TypeOK'
  BY <1>3, <1>4, ThreadFacts DEF IInv, TypeOK, Goes, setupVars, nativeVars, objectVars
<1>6. StageInv'
  BY <1>4, ThreadFacts DEF IInv, TypeOK, StageInv, Goes, objectVars
<1>7. PlaceInv'
  BY <1>1, <1>3, <1>4, ThreadFacts DEF IInv, TypeOK, PlaceInv, Goes, objectVars
<1>8. LifeInv'
  BY <1>4, ThreadFacts DEF IInv, TypeOK, LifeInv, Goes, Offer, nativeVars, objectVars
<1> QED
  BY <1>5, <1>6, <1>7, <1>8 DEF IInv

LEMMA IInvTakeNext ==
  ASSUME IInv, NEW c \in Consumers, TakeNext(c)
  PROVE  IInv'
<1>0. PICK e : e = Head(eventQueue)
  OBVIOUS
<1>1. /\ eventQueue \in Seq(Events) /\ eventQueue /= <<>> /\ eventQueue' = Tail(eventQueue)
      /\ Len(eventQueue) \in Nat \ {0} /\ Len(eventQueue) <= QueueSize
  BY DEF IInv, TypeOK, TakeNext
<1>2. /\ DOMAIN eventQueue = 1..Len(eventQueue)
      /\ e = eventQueue[1] /\ e \in Events
      /\ eventQueue' \in Seq(Events) /\ Len(eventQueue') = Len(eventQueue) - 1
      /\ DOMAIN eventQueue' = 1..(Len(eventQueue) - 1)
      /\ \A i \in DOMAIN eventQueue' : i + 1 \in DOMAIN eventQueue /\ eventQueue'[i] = eventQueue[i + 1]
  BY <1>0, <1>1
<1>3. Queued(e) /\ ~Queued(e)' /\ \A q \in Events : Queued(q)' => Queued(q)
  <2>1. Queued(e)
    BY <1>1, <1>2 DEF Queued
  <2>2. \A i \in DOMAIN eventQueue' : eventQueue'[i] /= e
    <3>1. \A i \in DOMAIN eventQueue' : i + 1 /= 1 /\ 1 \in DOMAIN eventQueue
      BY <1>1, <1>2
    <3> QED
      BY <1>2, <3>1 DEF IInv, PlaceInv
  <2> QED
    BY <1>2, <2>1, <2>2 DEF Queued
<1>4. \A i, j \in DOMAIN eventQueue' : eventQueue'[i] = eventQueue'[j] => i = j
  <2> SUFFICES ASSUME NEW i \in DOMAIN eventQueue', NEW j \in DOMAIN eventQueue',
                      eventQueue'[i] = eventQueue'[j]
               PROVE  i = j
    OBVIOUS
  <2>1. i + 1 = j + 1 /\ i \in Nat /\ j \in Nat
    BY <1>1, <1>2 DEF IInv, PlaceInv
  <2> QED
    BY <2>1
<1>5. /\ holds' = [holds EXCEPT ![c] = @ \union {e}]
      /\ UNCHANGED <<setupVars, nativeVars, objectVars, threadVars, buffers, shared, finalized, lost>>
  BY <1>0 DEF TakeNext
<1>6. TypeOK'
  <2>1. holds' \in [Consumers -> SUBSET Events]
    BY <1>2, <1>5 DEF IInv, TypeOK
  <2> QED
    BY <1>1, <1>2, <1>5, <2>1, SizesAssumption DEF IInv, TypeOK, setupVars, nativeVars, objectVars, threadVars
<1>7. StageInv'
  BY <1>5, ThreadFacts DEF IInv, TypeOK, StageInv, threadVars, objectVars
<1>8. PlaceInv'
  BY <1>2, <1>3, <1>4, <1>5, ThreadFacts DEF IInv, TypeOK, PlaceInv, threadVars, objectVars
<1>9. LifeInv'
  BY <1>5 DEF IInv, LifeInv, nativeVars, objectVars, threadVars
<1> QED
  BY <1>6, <1>7, <1>8, <1>9 DEF IInv

(***************************************************************************)
(* The theorems                                                            *)
(***************************************************************************)

LEMMA IInvNext == IInv /\ [Next]_vars => IInv'
<1> SUFFICES ASSUME IInv, [Next]_vars PROVE IInv'
  OBVIOUS
<1>1. CASE CreateNative \/ StoreInstance \/ SetCallback
  BY <1>1, IInvSetup
<1>2. ASSUME NEW e \in Events, DefaultCallback(e) \/ AttachFails(e) \/ EventReceived(e) PROVE IInv'
  BY <1>2, IInvDefaultCallback, IInvAttachFails, IInvEventReceived
<1>3. CASE Discard
  BY <1>3, IInvDiscard
<1>4. CASE Offer
  BY <1>4, IInvOffer
<1>5. ASSUME NEW t \in Threads, Free(t) PROVE IInv'
  BY <1>5, IInvFreeChecks, IInvFreeSets, IInvFreeDeletes, IInvFreeEmpties DEF Free
<1>6. ASSUME NEW c \in Consumers, TakeNext(c) \/ EndRead(c) PROVE IInv'
  BY <1>6, IInvTakeNext, IInvEndRead
<1>7. ASSUME NEW c \in Consumers, NEW e \in Events,
             GetNextEventDirect(c, e) \/ CallFree(c, e) \/ StartRead(c, e) \/ Forget(c, e)
      PROVE  IInv'
  BY <1>7, IInvGetNextEventDirect, IInvCallFree, IInvStartRead, IInvForget
<1>8. ASSUME NEW c \in Consumers, NEW e \in Events, GetDirectData(c, e) \/ DropBuffer(c, e) PROVE IInv'
  BY <1>8, IInvBuffers
<1>9. ASSUME NEW c \in Consumers, NEW d \in Consumers, NEW e \in Events, Share(c, d, e) PROVE IInv'
  BY <1>9, IInvShare
<1>10. ASSUME NEW e \in Events, Finalize(e) PROVE IInv'
  BY <1>10, IInvFinalize
<1>11. CASE UNCHANGED vars
  BY <1>11 DEF vars, setupVars, nativeVars, objectVars, threadVars, referenceVars,
     IInv, TypeOK, StageInv, PlaceInv, LifeInv, Queued
<1> QED
  BY <1>1, <1>2, <1>3, <1>4, <1>5, <1>6, <1>7, <1>8, <1>9, <1>10, <1>11 DEF Next

LEMMA IInvHolds == Spec => []IInv
BY IInvInit, IInvNext, PTL DEF Spec

\* Every variable keeps its type, and a BAEvent is freed before it is emptied.
THEOREM EventsTypeCorrect == Spec => []TypeOK
<1>1. IInv => TypeOK
  BY DEF IInv
<1> QED
  BY <1>1, IInvHolds, PTL

\* No event is deleted twice unless the application has shared it.
THEOREM DeletedAtMostOnce == Spec => []DeletedOnceUnlessShared
<1>1. IInv => DeletedOnceUnlessShared
  BY DEF IInv, TypeOK, LifeInv, DeletedOnceUnlessShared
<1> QED
  BY <1>1, IInvHolds, PTL

\* No thread reads the memory of a deleted event it has not shared or freed.
THEOREM NoReadOfDeletedMemory == Spec => []MemoryIsLive
<1>1. IInv => MemoryIsLive
  <2> SUFFICES ASSUME IInv, NEW e \in Events \ shared, native[e] = "deleted"
               PROVE  /\ \A c \in Consumers : ~(pc[c] = "read" /\ current[c] = e)
                      /\ Queued(e) \/ (\E c \in Consumers : e \in holds[c] \union buffers[c]) => e \in freed
                      /\ \A c \in Consumers : e \in holds[c] \intersect buffers[c] => e \notin finalized
    BY DEF MemoryIsLive
  <2>1. e \in mapped => e \in freed
    BY DEF IInv, LifeInv
  <2>2. \A c \in Consumers : ~(pc[c] = "read" /\ current[c] = e)
    BY <2>1, ThreadFacts DEF IInv, StageInv, LifeInv
  <2>3. Queued(e) \/ (\E c \in Consumers : e \in holds[c] \union buffers[c]) => e \in mapped
    BY DEF IInv, PlaceInv
  <2>4. \A c \in Consumers : e \in holds[c] => e \notin finalized
    BY DEF IInv, PlaceInv
  <2> QED
    BY <2>1, <2>2, <2>3, <2>4
<1> QED
  BY <1>1, IInvHolds, PTL

\* No event leaks but those that never got a mapped BAEvent.
THEOREM NoOtherEventLeaks == Spec => []NothingElseIsForgotten
<1>1. IInv => NothingElseIsForgotten
  BY ThreadFacts DEF IInv, LifeInv, NothingElseIsForgotten, Referenced
<1> QED
  BY <1>1, IInvHolds, PTL

\* An event that is not shared has one owner at a time.
THEOREM OneOwnerAtATime == Spec => []OwnershipIsExclusive
<1>1. IInv => OwnershipIsExclusive
  <2> SUFFICES ASSUME IInv, NEW e \in Events \ shared
               PROVE  Cardinality(Owners(e)) <= 1
    BY DEF OwnershipIsExclusive
  <2>1. \A x, y \in Owners(e) : x = y
    <3>1. ASSUME NEW t \in Threads, NEW u \in Threads, current[t] = e, current[u] = e PROVE t = u
      BY <3>1, UniqueUser DEF IInv
    <3>2. ASSUME NEW c \in Consumers, NEW d \in Consumers, e \in holds[c], e \in holds[d] PROVE c = d
      BY <3>2 DEF IInv, PlaceInv
    <3>3. ASSUME NEW t \in Threads, NEW c \in Consumers, current[t] = e, e \in holds[c] PROVE t = c
      BY <3>3, <3>2, ThreadFacts DEF IInv, StageInv, PlaceInv, Threads
    <3>4. Queued(e) => /\ \A t \in Threads : current[t] /= e
                       /\ \A c \in Consumers : e \notin holds[c]
      BY DEF IInv, PlaceInv
    <3> QED
      BY <3>1, <3>2, <3>3, <3>4 DEF Owners
  <2>2. CASE Owners(e) = {}
    BY <2>2, FS_EmptySet
  <2>3. CASE Owners(e) /= {}
    <3>1. PICK x : x \in Owners(e)
      BY <2>3
    <3>2. Owners(e) = {x}
      BY <2>1, <3>1
    <3> QED
      BY <3>2, FS_Singleton
  <2> QED
    BY <2>2, <2>3
<1> QED
  BY <1>1, IInvHolds, PTL
=============================================================================
