-------------------------- MODULE IdempotencyProofs --------------------------
(***************************************************************************)
(* Proofs about Idempotency, for any number of requests, slots, payloads,  *)
(* any window, any cap and any sweep cadence.                              *)
(***************************************************************************)
EXTENDS Idempotency, TLAPS

\* A request that has arrived addresses a slot, and only an answered request
\* has an outcome.
Arrived ==
    \A r \in Requests :
        /\ pc[r] # "idle" => slot[r] \in Slots
        /\ pc[r] # "answered" => outcome[r] = "none"

\* A completed entry holds the stored response of an answered request for
\* that slot, with its hash and its completion time.
DoneIsStored ==
    \A s \in Slots : entries[s].state = "done" =>
        /\ entries[s].resp \in Requests
        /\ outcome[entries[s].resp] = "stored"
        /\ slot[entries[s].resp] = s
        /\ hash[entries[s].resp] = entries[s].hash
        /\ answeredAt[entries[s].resp] = entries[s].at

\* A stored response is still in its entry, was evicted, or has expired.
StoredIsKnown ==
    \A q \in Requests : outcome[q] = "stored" =>
        \/ /\ entries[slot[q]].state = "done"
           /\ entries[slot[q]].resp = q
        \/ q \in evicted
        \/ now - answeredAt[q] > Window

\* The inductive invariant.
IInv ==
    /\ TypeOK
    /\ Arrived
    /\ InFlightKept
    /\ SingleExecution
    /\ DoneIsStored
    /\ StoredIsKnown
    /\ ReplayIsOriginal

USE ConstantsAssumption

\* sweep never takes an entry in flight: every victim is a completed entry.
LEMMA VictimsAreDone ==
    ASSUME entries \in [Slots -> Entry], NEW v \in Victims
    PROVE  /\ v \subseteq Slots
           /\ \A t \in v : entries[t].state = "done"
<1>1. v = {} \/ v \subseteq Done(Unexpired(entries))
  BY DEF Victims, EvictionSets
<1>2. \A t \in Done(Unexpired(entries)) : t \in Slots /\ entries[t].state = "done"
  BY DEF Done, Unexpired, Drop, Absent, Expired
<1> QED
  BY <1>1, <1>2

\* What begin sees of a slot: the entry as it was, or nothing if it was a
\* completed entry that expired or was evicted.
LEMMA LookedEntries ==
    ASSUME entries \in [Slots -> Entry], now \in Nat,
           NEW s \in Slots, NEW v \in Victims
    PROVE  /\ Looked(s, v) \in [Slots -> Entry]
           /\ \A t \in Slots :
                \/ Looked(s, v)[t] = entries[t]
                \/ /\ Looked(s, v)[t] = Absent
                   /\ entries[t].state = "done"
                   /\ Expired(entries[t]) \/ t \in v
           /\ ~Expired(Looked(s, v)[s])
<1> DEFINE swept == IF SweepDue THEN Drop(Unexpired(entries), v) ELSE entries
<1>1. Absent \in Entry /\ Absent.state = "absent"
  BY DEF Absent, Entry, Hashes
<1>2. swept \in [Slots -> Entry]
  BY <1>1 DEF Drop, Unexpired
<1>3. \A t \in Slots :
        \/ swept[t] = entries[t]
        \/ /\ swept[t] = Absent
           /\ entries[t].state = "done"
           /\ Expired(entries[t]) \/ t \in v
  BY VictimsAreDone DEF Drop, Unexpired, Expired
<1>4. Looked(s, v) = IF Expired(swept[s]) THEN Drop(swept, {s}) ELSE swept
  BY DEF Looked
<1>5. CASE Expired(swept[s])
  <2>1. Looked(s, v) = [t \in Slots |-> IF t \in {s} THEN Absent ELSE swept[t]]
    BY <1>4, <1>5 DEF Drop
  <2>2. swept[s] = entries[s]
    BY <1>1, <1>3, <1>5 DEF Expired
  <2>3. entries[s].state = "done" /\ Expired(entries[s])
    BY <1>5, <2>2 DEF Expired
  <2>4. ~Expired(Looked(s, v)[s])
    BY <1>1, <2>1 DEF Expired
  <2> HIDE DEF swept
  <2> QED
    BY <1>1, <1>2, <1>3, <2>1, <2>3, <2>4
<1>6. CASE ~Expired(swept[s])
  BY <1>2, <1>3, <1>4, <1>6
<1> QED
  BY <1>5, <1>6

\* The initial state satisfies the invariant.
LEMMA InitIInv == Init => IInv
<1> SUFFICES ASSUME Init PROVE IInv
  OBVIOUS
<1>1. TypeOK
  BY DEF Init, TypeOK, Entry, Absent, Hashes
<1> QED
  BY <1>1 DEF Init, IInv, Arrived, InFlightKept, SingleExecution, DoneIsStored,
              StoredIsKnown, ReplayIsOriginal, Running, Absent

\* begin preserves the invariant, whichever of its four results it gives.
LEMMA BeginIInv ==
    ASSUME IInv, NEW r \in Requests, NEW s \in Slots,
           NEW h \in Hashes, Begin(r, s, h)
    PROVE  IInv'
<1> USE DEF IInv
<1>1. PICK v \in Victims :
        /\ evicted' = evicted \cup {entries[t].resp : t \in v}
        /\ \/ Fresh(r, s, h, Looked(s, v))
           \/ PayloadMismatch(r, s, h, Looked(s, v))
           \/ InFlight(r, s, h, Looked(s, v))
           \/ Replay(r, s, h, Looked(s, v))
  BY DEF Begin
<1> DEFINE es == Looked(s, v)
<1>2. /\ pc[r] = "idle"
      /\ begins' = (begins + 1) % SweepEvery
      /\ slot' = [slot EXCEPT ![r] = s]
      /\ hash' = [hash EXCEPT ![r] = h]
      /\ now' = now
  BY DEF Begin
<1>3. /\ es \in [Slots -> Entry]
      /\ \A t \in Slots :
           \/ es[t] = entries[t]
           \/ /\ es[t] = Absent
              /\ entries[t].state = "done"
              /\ Expired(entries[t]) \/ t \in v
      /\ ~Expired(es[s])
  BY LookedEntries DEF TypeOK
<1>4. v \subseteq Slots /\ \A t \in v : entries[t].state = "done"
  BY VictimsAreDone DEF TypeOK
<1>5. Absent.state = "absent" /\ Absent \in Entry
  BY DEF Absent, Entry, Hashes
<1>6. \/ Fresh(r, s, h, es)
      \/ PayloadMismatch(r, s, h, es)
      \/ InFlight(r, s, h, es)
      \/ Replay(r, s, h, es)
  BY <1>1
<1> HIDE DEF es
<1> DEFINE inflight == [state |-> "inFlight", hash |-> h, resp |-> NoRequest, at |-> 0]
<1>7. inflight \in Entry /\ inflight.state = "inFlight" /\ inflight.hash = h
  BY DEF Entry
<1>8. outcome[r] = "none"
  BY <1>2 DEF Arrived
<1>9. \/ /\ es[s].state = "absent"
         /\ entries' = [es EXCEPT ![s] = inflight]
         /\ pc' = [pc EXCEPT ![r] = "executing"]
         /\ outcome' = outcome /\ answer' = answer /\ answeredAt' = answeredAt
      \/ \E w \in {"mismatch", "conflict", "replay"}, a \in Requests \cup {NoRequest} :
         /\ entries' = es
         /\ pc' = [pc EXCEPT ![r] = "answered"]
         /\ outcome' = [outcome EXCEPT ![r] = w]
         /\ answer' = [answer EXCEPT ![r] = a]
         /\ answeredAt' = [answeredAt EXCEPT ![r] = now]
         /\ w = "replay" => /\ es[s].state = "done" /\ a = es[s].resp
                            /\ ~Mismatch(es[s].hash, h)
  <2>1. es[s] \in Entry
    BY <1>3
  <2> QED
    BY <1>6, <2>1 DEF Fresh, PayloadMismatch, InFlight, Replay, Answer, Entry
<1> HIDE DEF inflight
<1>10. \A t \in Slots : entries'[t] = es[t] \/ (t = s /\ es[s].state = "absent" /\ entries'[t] = inflight)
  BY <1>3, <1>9
<1>11. \A q \in Requests : q # r =>
          /\ pc'[q] = pc[q] /\ slot'[q] = slot[q] /\ hash'[q] = hash[q]
          /\ outcome'[q] = outcome[q] /\ answer'[q] = answer[q]
          /\ answeredAt'[q] = answeredAt[q]
  BY <1>2, <1>9 DEF TypeOK
<1>12. slot'[r] = s /\ hash'[r] = h
  BY <1>2 DEF TypeOK
<1>13. /\ pc'[r] \in {"executing", "answered"} /\ outcome'[r] # "stored"
       /\ pc'[r] # "answered" => outcome'[r] = "none"
  BY <1>8, <1>9 DEF TypeOK
<1>14. TypeOK'
  <2>1. entries' \in [Slots -> Entry]
    BY <1>3, <1>7, <1>9
  <2>2. begins' \in 0 .. (SweepEvery - 1)
    BY <1>2 DEF TypeOK
  <2>3. \A t \in v : entries[t].resp \in Requests \cup {NoRequest}
    BY <1>4 DEF TypeOK, Entry
  <2>4. evicted' \in SUBSET (Requests \cup {NoRequest})
    BY <1>1, <2>3 DEF TypeOK
  <2> QED
    BY <1>2, <1>9, <2>1, <2>2, <2>4 DEF TypeOK, Hashes
<1>15. Arrived'
  BY <1>11, <1>12, <1>13 DEF Arrived
<1>16. InFlightKept'
  <2> SUFFICES ASSUME NEW q \in Requests, Running(q)'
               PROVE  entries'[slot'[q]].state = "inFlight" /\ entries'[slot'[q]].hash = hash'[q]
    BY DEF InFlightKept
  <2>1. CASE q = r
    <3>1. entries' = [es EXCEPT ![s] = inflight]
      BY <1>9, <2>1 DEF Running, TypeOK
    <3> QED
      BY <1>3, <1>7, <1>12, <2>1, <3>1
  <2>2. CASE q # r
    <3>1. Running(q) /\ slot'[q] = slot[q] /\ hash'[q] = hash[q]
      BY <1>11, <2>2 DEF Running
    <3>2. slot[q] \in Slots
      BY <3>1 DEF Running, Arrived
    <3>3. entries[slot[q]].state = "inFlight" /\ entries[slot[q]].hash = hash[q]
      BY <3>1 DEF InFlightKept
    <3>4. es[slot[q]] = entries[slot[q]]
      BY <1>3, <3>2, <3>3
    <3> QED
      BY <1>10, <3>1, <3>2, <3>3, <3>4
  <2> QED
    BY <2>1, <2>2
<1>17. SingleExecution'
  <2>1. \A q \in Requests : q # r /\ Running(q) /\ slot[q] = s => es[s].state = "inFlight"
    BY <1>3 DEF InFlightKept
  <2>2. Running(r)' => es[s].state = "absent"
    BY <1>9 DEF Running, TypeOK
  <2>3. \A q \in Requests : q # r => (Running(q)' <=> Running(q))
    BY <1>11 DEF Running
  <2> QED
    BY <1>11, <1>12, <2>1, <2>2, <2>3 DEF SingleExecution
<1>18. DoneIsStored'
  <2> SUFFICES ASSUME NEW t \in Slots, entries'[t].state = "done"
               PROVE  /\ entries'[t].resp \in Requests
                      /\ outcome'[entries'[t].resp] = "stored"
                      /\ slot'[entries'[t].resp] = t
                      /\ hash'[entries'[t].resp] = entries'[t].hash
                      /\ answeredAt'[entries'[t].resp] = entries'[t].at
    BY DEF DoneIsStored
  <2>1. entries'[t] = entries[t]
    BY <1>3, <1>5, <1>7, <1>10
  <2>2. entries[t].resp # r
    BY <1>8, <2>1 DEF DoneIsStored
  <2> QED
    BY <1>11, <2>1, <2>2 DEF DoneIsStored
<1>19. StoredIsKnown'
  <2> SUFFICES ASSUME NEW q \in Requests, outcome'[q] = "stored"
               PROVE  \/ entries'[slot'[q]].state = "done" /\ entries'[slot'[q]].resp = q
                      \/ q \in evicted'
                      \/ now' - answeredAt'[q] > Window
    BY DEF StoredIsKnown
  <2>1. q # r
    BY <1>13
  <2>2. /\ outcome[q] = "stored" /\ slot'[q] = slot[q] /\ answeredAt'[q] = answeredAt[q]
        /\ slot[q] \in Slots
    BY <1>11, <2>1 DEF Arrived, TypeOK
  <2>3. CASE q \in evicted \/ now - answeredAt[q] > Window
    BY <1>1, <1>2, <2>2, <2>3
  <2>4. CASE entries[slot[q]].state = "done" /\ entries[slot[q]].resp = q
    <3>1. CASE es[slot[q]] = entries[slot[q]]
      BY <1>10, <2>2, <2>4, <3>1
    <3>2. CASE slot[q] \in v
      BY <1>1, <2>4, <3>2
    <3>3. CASE Expired(entries[slot[q]])
      BY <1>2, <2>2, <2>4, <3>3 DEF Expired, DoneIsStored
    <3> QED
      BY <1>3, <2>2, <3>1, <3>2, <3>3
  <2> QED
    BY <2>2, <2>3, <2>4 DEF StoredIsKnown
<1>20. ReplayIsOriginal'
  <2> SUFFICES ASSUME NEW x \in Requests, outcome'[x] = "replay"
               PROVE  \E q \in Requests :
                        /\ answer'[x] = q
                        /\ outcome'[q] = "stored"
                        /\ slot'[q] = slot'[x]
                        /\ ~(hash'[q] # NoHash /\ hash'[x] # NoHash /\ hash'[q] # hash'[x])
                        /\ answeredAt'[x] - answeredAt'[q] <= Window
    BY DEF ReplayIsOriginal
  <2>1. CASE x # r
    <3>1. PICK q \in Requests :
             /\ answer[x] = q
             /\ outcome[q] = "stored"
             /\ slot[q] = slot[x]
             /\ ~(hash[q] # NoHash /\ hash[x] # NoHash /\ hash[q] # hash[x])
             /\ answeredAt[x] - answeredAt[q] <= Window
      BY <1>11, <2>1 DEF ReplayIsOriginal
    <3>2. q # r
      BY <1>8, <3>1
    <3> QED
      BY <1>11, <2>1, <3>1, <3>2
  <2>2. CASE x = r
    <3>1. /\ es[s].state = "done" /\ answer'[r] = es[s].resp
          /\ ~Mismatch(es[s].hash, h) /\ answeredAt'[r] = now
      BY <1>8, <1>9, <2>2 DEF TypeOK
    <3>2. es[s] = entries[s]
      BY <1>3, <1>5, <3>1
    <3>3. PICK q \in Requests : q = entries[s].resp
      BY <3>1, <3>2 DEF DoneIsStored
    <3>4. /\ outcome[q] = "stored" /\ slot[q] = s /\ hash[q] = entries[s].hash
          /\ answeredAt[q] = entries[s].at
      BY <3>1, <3>2, <3>3 DEF DoneIsStored
    <3>5. q # r
      BY <1>8, <3>4
    <3>6. entries[s].at \in Nat /\ now \in Nat
      BY DEF TypeOK, Entry
    <3>7. now - entries[s].at <= Window
      BY <1>3, <3>1, <3>2, <3>6 DEF Expired
    <3> QED
      BY <1>11, <1>12, <2>2, <3>1, <3>2, <3>3, <3>4, <3>5, <3>7 DEF Mismatch
  <2> QED
    BY <2>1, <2>2
<1> QED
  BY <1>14, <1>15, <1>16, <1>17, <1>18, <1>19, <1>20

\* A running request that ends preserves the invariant: its own entry is the
\* one in flight, so completing or abandoning it disturbs no other request.
LEMMA EndIInv ==
    ASSUME IInv, NEW r \in Requests,
           InvokeErr(r) \/ CaptureOk(r) \/ CaptureTooLarge(r)
    PROVE  IInv'
<1> USE DEF IInv
<1> DEFINE s == slot[r]
<1>1. Running(r) /\ outcome[r] = "none" /\ s \in Slots
  BY DEF InvokeErr, CaptureOk, CaptureTooLarge, Running, Arrived
<1>2. entries[s].state = "inFlight" /\ entries[s].hash = hash[r]
  BY <1>1 DEF InFlightKept
<1>3. /\ begins' = begins /\ now' = now /\ slot' = slot
      /\ hash' = hash /\ evicted' = evicted
  BY DEF InvokeErr, CaptureOk, CaptureTooLarge
<1>4. \E w \in {"error", "stored", "unstored"}, a \in Requests \cup {NoRequest} :
        /\ pc' = [pc EXCEPT ![r] = "answered"]
        /\ outcome' = [outcome EXCEPT ![r] = w]
        /\ answer' = [answer EXCEPT ![r] = a]
        /\ answeredAt' = [answeredAt EXCEPT ![r] = now]
        /\ IF w = "stored" THEN entries' = Completed(entries, s, r)
                           ELSE entries' = Abandoned(entries, s)
  BY DEF InvokeErr, CaptureOk, CaptureTooLarge, Answer
<1> DEFINE done == [state |-> "done", hash |-> hash[r], resp |-> r, at |-> now]
<1>5. /\ done \in Entry /\ done.state = "done" /\ done.resp = r
      /\ done.hash = hash[r] /\ done.at = now
      /\ Absent \in Entry /\ Absent.state = "absent"
  BY DEF TypeOK, Entry, Absent, Hashes
<1>6. /\ outcome'[r] = "stored" => entries' = [entries EXCEPT ![s] = done]
      /\ outcome'[r] # "stored" => entries' = [entries EXCEPT ![s] = Absent]
  <2>1. Completed(entries, s, r) = [entries EXCEPT ![s] = done]
    BY <1>1, <1>2 DEF Completed, TypeOK
  <2>2. Abandoned(entries, s) = [entries EXCEPT ![s] = Absent]
    BY <1>1 DEF Abandoned, Drop, TypeOK
  <2> QED
    BY <1>4, <2>1, <2>2 DEF TypeOK
<1>7. /\ pc'[r] = "answered" /\ answeredAt'[r] = now
      /\ outcome'[r] \in {"error", "stored", "unstored"}
  BY <1>4 DEF TypeOK
<1>8. \A q \in Requests : q # r =>
        /\ pc'[q] = pc[q] /\ outcome'[q] = outcome[q]
        /\ answer'[q] = answer[q] /\ answeredAt'[q] = answeredAt[q]
  BY <1>4 DEF TypeOK
<1>9. TypeOK'
  <2>1. entries' \in [Slots -> Entry]
    BY <1>1, <1>5, <1>6 DEF TypeOK
  <2> QED
    BY <1>3, <1>4, <2>1 DEF TypeOK
<1> HIDE DEF done
<1>10. /\ entries'[s] = IF outcome'[r] = "stored" THEN done ELSE Absent
       /\ \A t \in Slots : t # s => entries'[t] = entries[t]
  BY <1>1, <1>6 DEF TypeOK
<1> HIDE DEF s
<1>11. slot[r] = s
  BY DEF s
<1>12. Arrived'
  BY <1>3, <1>7, <1>8, <1>1, <1>11 DEF Arrived
<1>13. \A q \in Requests : Running(q)' => q # r /\ Running(q) /\ slot[q] \in Slots /\ slot[q] # s
  BY <1>1, <1>7, <1>8, <1>11 DEF Running, Arrived, SingleExecution
<1>14. InFlightKept'
  BY <1>3, <1>10, <1>13 DEF InFlightKept
<1>15. SingleExecution'
  BY <1>3, <1>13 DEF SingleExecution
<1>16. DoneIsStored'
  <2> SUFFICES ASSUME NEW t \in Slots, entries'[t].state = "done"
               PROVE  /\ entries'[t].resp \in Requests
                      /\ outcome'[entries'[t].resp] = "stored"
                      /\ slot'[entries'[t].resp] = t
                      /\ hash'[entries'[t].resp] = entries'[t].hash
                      /\ answeredAt'[entries'[t].resp] = entries'[t].at
    BY DEF DoneIsStored
  <2>1. CASE t = s
    BY <1>3, <1>5, <1>7, <1>10, <1>11, <2>1
  <2>2. CASE t # s
    <3>1. entries'[t] = entries[t] /\ entries[t].resp # r
      BY <1>1, <1>10, <2>2 DEF DoneIsStored
    <3> QED
      BY <1>3, <1>8, <3>1 DEF DoneIsStored
  <2> QED
    BY <2>1, <2>2
<1>17. StoredIsKnown'
  <2> SUFFICES ASSUME NEW q \in Requests, outcome'[q] = "stored"
               PROVE  \/ entries'[slot'[q]].state = "done" /\ entries'[slot'[q]].resp = q
                      \/ q \in evicted'
                      \/ now' - answeredAt'[q] > Window
    BY DEF StoredIsKnown
  <2>1. CASE q = r
    BY <1>3, <1>5, <1>10, <1>11, <2>1
  <2>2. CASE q # r
    <3>1. outcome[q] = "stored" /\ slot[q] \in Slots /\ answeredAt'[q] = answeredAt[q]
      BY <1>8, <2>2 DEF Arrived
    <3>2. CASE entries[slot[q]].state = "done" /\ entries[slot[q]].resp = q
      BY <1>2, <1>3, <1>10, <3>1, <3>2
    <3> QED
      BY <1>3, <3>1, <3>2 DEF StoredIsKnown
  <2> QED
    BY <2>1, <2>2
<1>18. ReplayIsOriginal'
  <2> SUFFICES ASSUME NEW x \in Requests, outcome'[x] = "replay"
               PROVE  \E q \in Requests :
                        /\ answer'[x] = q
                        /\ outcome'[q] = "stored"
                        /\ slot'[q] = slot'[x]
                        /\ ~(hash'[q] # NoHash /\ hash'[x] # NoHash /\ hash'[q] # hash'[x])
                        /\ answeredAt'[x] - answeredAt'[q] <= Window
    BY DEF ReplayIsOriginal
  <2>1. x # r
    BY <1>7
  <2>2. PICK q \in Requests :
           /\ answer[x] = q
           /\ outcome[q] = "stored"
           /\ slot[q] = slot[x]
           /\ ~(hash[q] # NoHash /\ hash[x] # NoHash /\ hash[q] # hash[x])
           /\ answeredAt[x] - answeredAt[q] <= Window
    BY <1>8, <2>1 DEF ReplayIsOriginal
  <2>3. q # r
    BY <1>1, <2>2
  <2> QED
    BY <1>3, <1>8, <2>1, <2>2, <2>3
<1> QED
  BY <1>9, <1>12, <1>14, <1>15, <1>16, <1>17, <1>18

\* The steps that leave the store alone preserve the invariant.
LEMMA OtherIInv ==
    ASSUME IInv,
           \/ \E r \in Requests : InvokeOk(r) \/ Cancel(r)
           \/ Tick
           \/ UNCHANGED vars
    PROVE  IInv'
<1> USE DEF IInv
<1>1. CASE Tick \/ UNCHANGED vars
  <2>1. /\ entries' = entries /\ begins' = begins /\ pc' = pc /\ slot' = slot
        /\ hash' = hash /\ outcome' = outcome /\ answer' = answer
        /\ answeredAt' = answeredAt /\ evicted' = evicted
        /\ now' \in Nat /\ now <= now'
    BY <1>1 DEF Tick, vars, TypeOK
  <2>2. TypeOK'
    BY <2>1 DEF TypeOK
  <2>3. StoredIsKnown'
    BY <2>1 DEF StoredIsKnown, TypeOK
  <2>4. Arrived' /\ InFlightKept' /\ SingleExecution'
    BY <2>1 DEF Arrived, InFlightKept, SingleExecution, Running
  <2>5. DoneIsStored'
    BY <2>1 DEF DoneIsStored
  <2>6. ReplayIsOriginal'
    BY <2>1 DEF ReplayIsOriginal
  <2> QED
    BY <2>2, <2>3, <2>4, <2>5, <2>6
<1>2. CASE \E r \in Requests : InvokeOk(r) \/ Cancel(r)
  <2>1. PICK r \in Requests : InvokeOk(r) \/ Cancel(r)
    BY <1>2
  <2>2. /\ entries' = entries /\ begins' = begins /\ now' = now /\ slot' = slot
        /\ hash' = hash /\ outcome' = outcome /\ answer' = answer
        /\ answeredAt' = answeredAt /\ evicted' = evicted
        /\ pc[r] \in {"executing", "capturing"}
        /\ pc' = pc \/ pc' = [pc EXCEPT ![r] = "capturing"] \/ pc' = [pc EXCEPT ![r] = "cancelled"]
    BY <2>1 DEF InvokeOk, Cancel, Running, TypeOK
  <2>3. \A q \in Requests : /\ pc'[q] = "idle" <=> pc[q] = "idle"
                            /\ pc'[q] = "answered" <=> pc[q] = "answered"
                            /\ Running(q)' => Running(q)
    BY <2>2 DEF TypeOK, Running
  <2>4. TypeOK'
    BY <2>2 DEF TypeOK
  <2>5. Arrived' /\ InFlightKept' /\ SingleExecution'
    BY <2>2, <2>3 DEF Arrived, InFlightKept, SingleExecution
  <2>6. DoneIsStored' /\ StoredIsKnown'
    BY <2>2 DEF DoneIsStored, StoredIsKnown
  <2>7. ReplayIsOriginal'
    BY <2>2 DEF ReplayIsOriginal
  <2> QED
    BY <2>4, <2>5, <2>6, <2>7
<1> QED
  BY <1>1, <1>2

\* The invariant is inductive.
LEMMA NextIInv == IInv /\ [Next]_vars => IInv'
<1> SUFFICES ASSUME IInv, [Next]_vars PROVE IInv'
  OBVIOUS
<1>1. CASE \E r \in Requests, s \in Slots, h \in Hashes : Begin(r, s, h)
  BY <1>1, BeginIInv
<1>2. CASE \E r \in Requests : InvokeErr(r) \/ CaptureOk(r) \/ CaptureTooLarge(r)
  BY <1>2, EndIInv
<1>3. CASE \/ \E r \in Requests : InvokeOk(r) \/ Cancel(r)
           \/ Tick
           \/ UNCHANGED vars
  BY <1>3, OtherIInv
<1> QED
  BY <1>1, <1>2, <1>3 DEF Next

\* Every reachable state satisfies the invariant.
THEOREM Invariance == Spec => []IInv
BY InitIInv, NextIInv, PTL DEF Spec

\* The store and the requests keep their types.
THEOREM TypeCorrect == Spec => []TypeOK
<1>1. IInv => TypeOK
  BY DEF IInv
<1> QED
  BY <1>1, Invariance, PTL

\* dispatch never executes two requests under the same key together.
THEOREM ExecutionIsExclusive == Spec => []SingleExecution
<1>1. IInv => SingleExecution
  BY DEF IInv
<1> QED
  BY <1>1, Invariance, PTL

\* The entry of a running request survives every sweep, eviction and request.
THEOREM EntryOutlivesExecution == Spec => []InFlightKept
<1>1. IInv => InFlightKept
  BY DEF IInv
<1> QED
  BY <1>1, Invariance, PTL

\* Ownership of the entries in flight is preserved: begin makes one for the
\* request it lets execute, and a request that ends takes its own away.
LEMMA NextOwned == IInv /\ InFlightIsOwned /\ [Next]_vars => InFlightIsOwned'
<1> SUFFICES ASSUME IInv, InFlightIsOwned, [Next]_vars,
                    NEW t \in Slots, entries'[t].state = "inFlight"
             PROVE  \E q \in Requests : slot'[q] = t /\ (Running(q)' \/ pc'[q] = "cancelled")
  BY DEF InFlightIsOwned, Running
<1> USE DEF IInv
<1> DEFINE Owner(q) == slot[q] = t /\ (Running(q) \/ pc[q] = "cancelled")
<1>1. ASSUME NEW r \in Requests, NEW s \in Slots, NEW h \in Hashes, Begin(r, s, h)
      PROVE  \E q \in Requests : slot'[q] = t /\ (Running(q)' \/ pc'[q] = "cancelled")
  <2>1. PICK v \in Victims :
          \/ Fresh(r, s, h, Looked(s, v))
          \/ PayloadMismatch(r, s, h, Looked(s, v))
          \/ InFlight(r, s, h, Looked(s, v))
          \/ Replay(r, s, h, Looked(s, v))
    BY <1>1 DEF Begin
  <2>2. /\ pc[r] = "idle" /\ slot' = [slot EXCEPT ![r] = s]
        /\ \A q \in Requests : q # r => pc'[q] = pc[q]
    BY <1>1, <2>1 DEF Begin, Fresh, PayloadMismatch, InFlight, Replay, Answer, TypeOK
  <2>3. \A u \in Slots : \/ Looked(s, v)[u] = entries[u]
                        \/ Looked(s, v)[u].state = "absent"
    BY LookedEntries DEF TypeOK, Absent
  <2>4. CASE entries[t].state = "inFlight"
    <3>1. PICK q \in Requests : Owner(q)
      BY <2>4 DEF InFlightIsOwned
    <3>2. q # r
      BY <2>2, <3>1 DEF Running
    <3> QED
      BY <2>2, <3>1, <3>2 DEF Running, TypeOK
  <2>5. CASE entries[t].state # "inFlight"
    <3>1. Looked(s, v) \in [Slots -> Entry]
      BY LookedEntries DEF TypeOK
    <3>2. t = s /\ pc'[r] = "executing"
      BY <2>1, <2>3, <2>5, <3>1 DEF Fresh, PayloadMismatch, InFlight, Replay, TypeOK
    <3> QED
      BY <2>2, <3>2 DEF Running, TypeOK
  <2> QED
    BY <2>4, <2>5
<1>2. ASSUME NEW r \in Requests, InvokeErr(r) \/ CaptureOk(r) \/ CaptureTooLarge(r)
      PROVE  \E q \in Requests : slot'[q] = t /\ (Running(q)' \/ pc'[q] = "cancelled")
  <2>1. /\ slot' = slot /\ slot[r] \in Slots
        /\ \A q \in Requests : q # r => pc'[q] = pc[q]
    BY <1>2 DEF InvokeErr, CaptureOk, CaptureTooLarge, Answer, Arrived, TypeOK
  <2>2. entries[slot[r]].state = "inFlight"
    BY <1>2 DEF InvokeErr, CaptureOk, CaptureTooLarge, InFlightKept, Running
  <2>3. /\ entries'[slot[r]].state # "inFlight"
        /\ \A u \in Slots : u # slot[r] => entries'[u] = entries[u]
    BY <1>2, <2>1, <2>2 DEF InvokeErr, CaptureOk, CaptureTooLarge, Completed, Abandoned,
                            Drop, Absent, TypeOK
  <2>4. t # slot[r] /\ entries[t].state = "inFlight"
    BY <2>3
  <2>5. PICK q \in Requests : Owner(q)
    BY <2>4 DEF InFlightIsOwned
  <2> QED
    BY <2>1, <2>4, <2>5 DEF Running
<1>3. ASSUME NEW r \in Requests, InvokeOk(r) \/ Cancel(r)
      PROVE  \E q \in Requests : slot'[q] = t /\ (Running(q)' \/ pc'[q] = "cancelled")
  <2>1. /\ slot' = slot /\ entries' = entries
        /\ pc'[r] \in {"capturing", "cancelled"}
        /\ \A q \in Requests : q # r => pc'[q] = pc[q]
    BY <1>3 DEF InvokeOk, Cancel, TypeOK
  <2>2. PICK q \in Requests : Owner(q)
    BY <2>1 DEF InFlightIsOwned
  <2> QED
    BY <2>1, <2>2 DEF Running
<1>4. CASE Tick \/ UNCHANGED vars
  BY <1>4 DEF Tick, vars, InFlightIsOwned, Running
<1> QED
  BY <1>1, <1>2, <1>3, <1>4 DEF Next

\* No error path, uncaptured response or eviction leaves a key in flight that
\* no request executes: only a dropped future does.
THEOREM NoKeyLeftBehind == Spec => []InFlightIsOwned
<1>1. Init => InFlightIsOwned
  BY DEF Init, InFlightIsOwned, Absent
<1> QED
  BY <1>1, NextOwned, Invariance, PTL DEF Spec

\* A replay is the stored response of the same key inside the window.
THEOREM ReplayIsFaithful == Spec => []ReplayIsOriginal
<1>1. IInv => ReplayIsOriginal
  BY DEF IInv
<1> QED
  BY <1>1, Invariance, PTL

\* begin executes a key anew only after the stored response expired or was
\* evicted at the cap.
THEOREM ReExecutionIsJustified == Spec => ReExecutionOnlyAfterLoss
<1> DEFINE Step == \A r, q \in Requests :
                     /\ pc[r] = "idle" /\ pc'[r] = "executing"
                     /\ outcome[q] = "stored" /\ slot[q] = slot'[r]
                     => now - answeredAt[q] > Window \/ q \in evicted'
<1>1. IInv /\ [Next]_vars => [Step]_vars
  <2> SUFFICES ASSUME IInv, Next, NEW r \in Requests, NEW q \in Requests,
                      pc[r] = "idle", pc'[r] = "executing",
                      outcome[q] = "stored", slot[q] = slot'[r]
               PROVE  now - answeredAt[q] > Window \/ q \in evicted'
    OBVIOUS
  <2> USE DEF IInv
  <2>1. PICK s \in Slots, h \in Hashes : Begin(r, s, h)
    <3>1. ~Tick
      BY DEF Tick
    <3>2. \A x \in Requests : ~InvokeOk(x) /\ ~Cancel(x)
      BY DEF InvokeOk, Cancel, Running, TypeOK
    <3>3. \A x \in Requests : ~InvokeErr(x) /\ ~CaptureOk(x) /\ ~CaptureTooLarge(x)
      BY DEF InvokeErr, CaptureOk, CaptureTooLarge, Answer, TypeOK
    <3>4. PICK x \in Requests, s \in Slots, h \in Hashes : Begin(x, s, h)
      BY <3>1, <3>2, <3>3 DEF Next
    <3>5. x = r
      BY <3>4 DEF Begin, Fresh, PayloadMismatch, InFlight, Replay, Answer, TypeOK
    <3> QED
      BY <3>4, <3>5
  <2>2. PICK v \in Victims :
          /\ evicted' = evicted \cup {entries[t].resp : t \in v}
          /\ \/ Fresh(r, s, h, Looked(s, v))
             \/ PayloadMismatch(r, s, h, Looked(s, v))
             \/ InFlight(r, s, h, Looked(s, v))
             \/ Replay(r, s, h, Looked(s, v))
    BY <2>1 DEF Begin
  <2>3. slot[q] = s
    BY <2>1 DEF Begin, TypeOK
  <2>4. Looked(s, v)[s].state = "absent"
    BY <2>2 DEF Fresh, PayloadMismatch, InFlight, Replay, Answer, TypeOK
  <2>5. CASE entries[s].state = "done" /\ entries[s].resp = q
    <3>1. Expired(entries[s]) \/ s \in v
      BY <2>4, <2>5, LookedEntries DEF TypeOK
    <3>2. answeredAt[q] = entries[s].at
      BY <2>5 DEF DoneIsStored
    <3> QED
      BY <2>2, <2>5, <3>1, <3>2 DEF Expired
  <2> QED
    BY <2>2, <2>3, <2>5 DEF StoredIsKnown
<1>2. Spec => [][Step]_vars
  BY <1>1, Invariance, PTL DEF Spec
<1> QED
  BY <1>2 DEF ReExecutionOnlyAfterLoss
=============================================================================
