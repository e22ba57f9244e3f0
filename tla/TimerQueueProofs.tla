-------------------------- MODULE TimerQueueProofs --------------------------
(***************************************************************************)
(* Proofs about TimerQueue, for any number of addresses, threads and       *)
(* timers.  The two sets agree and every Timer has one owner; neither is   *)
(* inductive alone.  Erasing from one set needs the other to agree, and    *)
(* that a Timer changed by restart() or delete is in no other set needs    *)
(* the owners to be disjoint.                                              *)
(***************************************************************************)
EXTENDS TimerQueue, SequenceTheorems, WellFoundedInduction, TLAPS

\* The batch holds its timers under their current expirations, and is empty
\* outside handleRead().
BatchAgrees ==
    /\ ~callingExpiredTimers => expired = {}
    /\ \A e \in expired : e = Entry(e[2])

\* The inductive invariant.
Inv == TypeOK /\ SetsAgree /\ OneOwner /\ BatchAgrees

Call == [op : {"add", "cancel"}, id : TimerId]
Targets(calls) == {calls[i].id[1] : i \in Adds(calls)}
Distinct(calls) ==
    \A i, j \in Adds(calls) : calls[i].id[1] = calls[j].id[1] => i = j

-----------------------------------------------------------------------------
(* The queue of calls.                                                     *)

\* A queued addTimerInLoop() adds its Timer to those in flight.
LEMMA AppendAdd ==
  ASSUME NEW p \in Seq(Call), NEW c \in Call, c.op = "add",
         Distinct(p), c.id[1] \notin Targets(p)
  PROVE  /\ Targets(Append(p, c)) = Targets(p) \cup {c.id[1]}
         /\ Distinct(Append(p, c))
  <1> DEFINE q == Append(p, c)
  <1>1. /\ q \in Seq(Call) /\ Len(q) = Len(p) + 1
        /\ \A i \in 1 .. Len(p) : q[i] = p[i]
        /\ q[Len(p) + 1] = c
        /\ DOMAIN q = 1 .. Len(p) + 1 /\ DOMAIN p = 1 .. Len(p) /\ Len(p) \in Nat
    OBVIOUS
  <1>2. Adds(q) = Adds(p) \cup {Len(p) + 1}
    BY <1>1 DEF Adds
  <1>3. \A i \in Adds(p) : i \in 1 .. Len(p) /\ q[i] = p[i] /\ p[i].id[1] \in Targets(p)
    BY <1>1 DEF Adds, Targets
  <1>4. Targets(q) = Targets(p) \cup {c.id[1]}
    BY <1>1, <1>2, <1>3 DEF Targets
  <1>5. Distinct(q)
    BY <1>1, <1>2, <1>3 DEF Distinct
  <1>6. QED
    BY <1>4, <1>5

\* A queued cancelInLoop() leaves those in flight alone.
LEMMA AppendCancel ==
  ASSUME NEW p \in Seq(Call), NEW c \in Call, c.op = "cancel", Distinct(p)
  PROVE  Targets(Append(p, c)) = Targets(p) /\ Distinct(Append(p, c))
  <1> DEFINE q == Append(p, c)
  <1>1. /\ q \in Seq(Call) /\ Len(q) = Len(p) + 1
        /\ \A i \in 1 .. Len(p) : q[i] = p[i]
        /\ q[Len(p) + 1] = c
        /\ DOMAIN q = 1 .. Len(p) + 1 /\ DOMAIN p = 1 .. Len(p) /\ Len(p) \in Nat
    OBVIOUS
  <1>2. Adds(q) = Adds(p)
    BY <1>1 DEF Adds
  <1>3. \A i \in Adds(p) : q[i] = p[i]
    BY <1>1 DEF Adds
  <1>4. Targets(q) = Targets(p)
    BY <1>2, <1>3 DEF Targets
  <1>5. Distinct(q)
    BY <1>2, <1>3 DEF Distinct
  <1>6. QED
    BY <1>4, <1>5

\* The loop takes a call from the front of the queue.
LEMMA TakeCall ==
  ASSUME NEW p \in Seq(Call), p # << >>, Distinct(p)
  PROVE  /\ Head(p) \in Call
         /\ Tail(p) \in Seq(Call)
         /\ Distinct(Tail(p))
         /\ Head(p).op = "cancel" => Targets(Tail(p)) = Targets(p)
         /\ Head(p).op = "add" =>
              /\ Head(p).id[1] \in Targets(p)
              /\ Targets(Tail(p)) = Targets(p) \ {Head(p).id[1]}
  <1> DEFINE q == Tail(p)
  <1>1. /\ q \in Seq(Call) /\ Len(q) = Len(p) - 1
        /\ \A i \in 1 .. Len(q) : q[i] = p[i + 1]
        /\ DOMAIN q = 1 .. Len(q) /\ DOMAIN p = 1 .. Len(p)
        /\ Len(p) \in Nat /\ Len(p) >= 1 /\ Head(p) = p[1] /\ p[1] \in Call
    OBVIOUS
  <1>2. \A i \in Adds(q) : i + 1 \in Adds(p) /\ q[i] = p[i + 1] /\ i \in Nat /\ i + 1 # 1
    BY <1>1 DEF Adds
  <1>3. \A i \in Adds(p) : i # 1 => i - 1 \in Adds(q) /\ q[i - 1] = p[i]
    <2> SUFFICES ASSUME NEW i \in Adds(p), i # 1
                 PROVE  i - 1 \in Adds(q) /\ q[i - 1] = p[i]
      OBVIOUS
    <2>1. i \in 1 .. Len(p) /\ p[i].op = "add"
      BY <1>1 DEF Adds
    <2>2. i - 1 \in 1 .. Len(q)
      BY <1>1, <2>1
    <2>3. q[i - 1] = p[(i - 1) + 1] /\ (i - 1) + 1 = i
      BY <1>1, <2>1, <2>2
    <2>4. QED
      BY <1>1, <2>1, <2>2, <2>3 DEF Adds
  <1>4. Distinct(q)
    BY <1>2 DEF Distinct, Adds
  <1>5. ASSUME Head(p).op = "cancel" PROVE Targets(q) = Targets(p)
    <2>1. 1 \notin Adds(p)
      BY <1>1, <1>5 DEF Adds
    <2>2. Targets(q) \subseteq Targets(p)
      BY <1>2 DEF Targets
    <2>3. ASSUME NEW a \in Targets(p) PROVE a \in Targets(q)
      <3>1. PICK i \in Adds(p) : a = p[i].id[1]
        BY DEF Targets
      <3>2. i - 1 \in Adds(q) /\ q[i - 1] = p[i]
        BY <1>3, <2>1
      <3>3. QED
        BY <3>1, <3>2 DEF Targets
    <2>4. QED
      BY <2>2, <2>3
  <1>6. ASSUME Head(p).op = "add"
        PROVE  /\ Head(p).id[1] \in Targets(p)
               /\ Targets(q) = Targets(p) \ {Head(p).id[1]}
    <2>1. 1 \in Adds(p)
      BY <1>1, <1>6 DEF Adds
    <2>2. \A i \in Adds(p) : i # 1 => p[i].id[1] # p[1].id[1]
      BY <2>1 DEF Distinct
    <2>3. Head(p).id[1] \in Targets(p)
      BY <1>1, <2>1 DEF Targets
    <2>4. ASSUME NEW a \in Targets(q) PROVE a \in Targets(p) \ {Head(p).id[1]}
      <3>1. PICK i \in Adds(q) : a = q[i].id[1]
        BY DEF Targets
      <3>2. i + 1 \in Adds(p) /\ q[i] = p[i + 1] /\ i + 1 # 1
        BY <1>2
      <3>3. QED
        BY <1>1, <2>2, <3>1, <3>2 DEF Targets
    <2>5. ASSUME NEW a \in Targets(p), a # Head(p).id[1] PROVE a \in Targets(q)
      <3>1. PICK i \in Adds(p) : a = p[i].id[1]
        BY DEF Targets
      <3>2. i # 1
        BY <1>1, <2>5, <3>1
      <3>3. i - 1 \in Adds(q) /\ q[i - 1] = p[i]
        BY <1>3, <3>2
      <3>4. QED
        BY <3>1, <3>3 DEF Targets
    <2>6. QED
      BY <2>3, <2>4, <2>5
  <1>7. QED
    BY <1>1, <1>4, <1>5, <1>6

-----------------------------------------------------------------------------
(* Steps of the member functions, for the sets and the owners.             *)

Agreement == SetsAgree /\ OneOwner /\ (\A e \in expired : e = Entry(e[2]))

\* Membership in the three owners, one address at a time.
LEMMA Owners ==
  ASSUME TypeOK, Agreement
  PROVE  /\ \A a \in Addrs :
              /\ a \in Queued <=> ActiveTimer(a) \in activeTimers
              /\ a \in Queued <=> Entry(a) \in timers
              /\ a \in InBatch <=> Entry(a) \in expired
         /\ Queued \subseteq Addrs /\ InBatch \subseteq Addrs
         /\ InFlight = Targets(pending) /\ Distinct(pending)
         /\ \A t \in activeTimers : t[1] \in Queued /\ t[2] = heap[t[1]].sequence
         /\ \A e \in timers : e[2] \in Queued /\ e[1] = heap[e[2]].expiration
         /\ \A e \in expired : e[2] \in InBatch /\ e[1] = heap[e[2]].expiration
         /\ \A a \in Queued \cup InBatch \cup InFlight : heap[a].sequence # 0
  <1>1. \A t \in activeTimers : t[1] \in Addrs /\ t[1] \in Queued
    BY DEF TypeOK, TimerId, Queued
  <1>2. \A e \in timers \cup expired : e[2] \in Addrs
    BY DEF TypeOK
  <1>3. \A e \in expired : e[2] \in InBatch
    BY DEF InBatch
  <1>4. \A a \in Addrs : a \in Queued <=> ActiveTimer(a) \in activeTimers
    BY <1>1 DEF Agreement, SetsAgree, Queued, ActiveTimer
  <1>5. \A a \in Addrs : a \in Queued <=> Entry(a) \in timers
    BY <1>1, <1>2, <1>4 DEF Agreement, SetsAgree, ActiveTimer, Entry
  <1>6. \A a \in Addrs : a \in InBatch <=> Entry(a) \in expired
    BY <1>2 DEF Agreement, InBatch, Entry
  <1>7. Queued \subseteq Addrs /\ InBatch \subseteq Addrs
    BY <1>1, <1>2 DEF Queued, InBatch
  <1>8. InFlight = Targets(pending) /\ Distinct(pending)
    BY DEF InFlight, Targets, Distinct, Agreement, OneOwner
  <1>9. \A t \in activeTimers : t[2] = heap[t[1]].sequence
    BY DEF Agreement, SetsAgree, ActiveTimer
  <1>10. \A e \in timers : e[1] = heap[e[2]].expiration /\ e[2] \in Queued
    BY <1>1, <1>2, <1>4 DEF Agreement, SetsAgree, Entry
  <1>11. \A e \in expired : e[1] = heap[e[2]].expiration
    BY DEF Agreement, Entry
  <1>12. \A a \in Queued \cup InBatch \cup InFlight : heap[a].sequence # 0
    BY DEF Agreement, OneOwner, Allocated
  <1>13. QED
    BY <1>1, <1>3, <1>4, <1>5, <1>6, <1>7, <1>8, <1>9, <1>10, <1>11, <1>12

\* Nothing moves between the owners.
LEMMA NothingMoves ==
  ASSUME TypeOK, Agreement, UNCHANGED <<heap, timers, activeTimers, expired>>,
         Targets(pending') = Targets(pending), Distinct(pending')
  PROVE  Agreement'
  BY Owners DEF Agreement, SetsAgree, OneOwner, Queued, InBatch, InFlight,
                Targets, Distinct, Allocated, Entry, ActiveTimer

\* insert() of a Timer that is new, or comes from the queue of calls.
LEMMA InsertMoves ==
  ASSUME TypeOK, Agreement, NEW a \in Addrs, a \notin Queued \cup InBatch,
         heap' \in [Addrs -> Timer],
         \A b \in Addrs \ {a} : heap'[b] = heap[b],
         heap'[a].sequence # 0,
         timers' = timers \cup {<<heap'[a].expiration, a>>},
         activeTimers' = activeTimers \cup {<<a, heap'[a].sequence>>},
         expired' = expired,
         Targets(pending') = Targets(pending) \ {a}, Distinct(pending')
  PROVE  Agreement'
  <1>1. Queued' = Queued \cup {a}
    <2> DEFINE new == <<a, heap'[a].sequence>>
    <2>1. new[1] = a /\ activeTimers' = activeTimers \cup {new}
      OBVIOUS
    <2> HIDE DEF new
    <2>2. \A b : b \in Queued' <=> \E t \in activeTimers \cup {new} : b = t[1]
      BY <2>1 DEF Queued
    <2>3. \A b : b \in Queued <=> \E t \in activeTimers : b = t[1]
      BY DEF Queued
    <2>4. \A b : b \in Queued' <=> b \in Queued \/ b = a
      BY <2>1, <2>2, <2>3
    <2>5. QED
      BY <2>4
  <1>2. InBatch' = InBatch
    BY DEF InBatch
  <1>3. InFlight' = InFlight \ {a}
    BY Owners DEF InFlight, Targets
  <1>4. Allocated' = Allocated \cup {a}
    BY DEF Allocated
  <1>5. SetsAgree'
    <2>1. ASSUME NEW t \in activeTimers'
          PROVE  (t = ActiveTimer(t[1]) /\ Entry(t[1]) \in timers)'
      <3>1. CASE t \in activeTimers
        <4>1. t[1] \in Addrs \ {a} /\ t = ActiveTimer(t[1]) /\ Entry(t[1]) \in timers
          BY <3>1, Owners DEF Agreement, SetsAgree
        <4>2. QED
          BY <4>1 DEF ActiveTimer, Entry
      <3>2. CASE t = <<a, heap'[a].sequence>>
        BY <3>2 DEF ActiveTimer, Entry
      <3>3. QED
        BY <3>1, <3>2
    <2>2. ASSUME NEW e \in timers'
          PROVE  (e = Entry(e[2]) /\ ActiveTimer(e[2]) \in activeTimers)'
      <3>1. CASE e \in timers
        <4>1. e[2] \in Addrs \ {a} /\ e = Entry(e[2]) /\ ActiveTimer(e[2]) \in activeTimers
          BY <3>1, Owners DEF Agreement, SetsAgree
        <4>2. QED
          BY <4>1 DEF ActiveTimer, Entry
      <3>2. CASE e = <<heap'[a].expiration, a>>
        BY <3>2 DEF ActiveTimer, Entry
      <3>3. QED
        BY <3>1, <3>2
    <2>3. QED
      BY <2>1, <2>2 DEF SetsAgree
  <1>6. OneOwner'
    <2>1. Distinct(pending)'
      BY DEF Distinct, Adds
    <2>2. QED
      BY <1>1, <1>2, <1>3, <1>4, <2>1 DEF Agreement, OneOwner, Distinct
  <1>7. (\A e \in expired : e = Entry(e[2]))'
    <2> SUFFICES ASSUME NEW e \in expired PROVE e = <<heap'[e[2]].expiration, e[2]>>
      BY DEF Entry
    <2>1. e[2] \in Addrs \ {a} /\ e = Entry(e[2])
      BY Owners DEF Agreement
    <2>2. QED
      BY <2>1 DEF Entry
  <1>8. QED
    BY <1>5, <1>6, <1>7 DEF Agreement

\* cancelInLoop() deletes a Timer of the sets.
LEMMA CancelMoves ==
  ASSUME TypeOK, Agreement, NEW a \in Addrs, a \in Queued,
         heap' = [heap EXCEPT ![a] = NoTimer],
         timers' = timers \ {Entry(a)},
         activeTimers' = activeTimers \ {ActiveTimer(a)},
         expired' = expired,
         Targets(pending') = Targets(pending), Distinct(pending')
  PROVE  Agreement'
  <1>1. \A b \in Addrs : heap'[b] = IF b = a THEN NoTimer ELSE heap[b]
    BY DEF TypeOK
  <1>2. \A t \in activeTimers' : t \in activeTimers /\ t[1] \in Queued \ {a}
    BY Owners DEF Agreement, SetsAgree, ActiveTimer
  <1>3. \A e \in timers' : e \in timers /\ e[2] \in Queued \ {a}
    BY Owners DEF Agreement, SetsAgree, Entry
  <1>4. Queued' = Queued \ {a}
    <2>1. Queued' \subseteq Queued \ {a}
      BY <1>2 DEF Queued
    <2>2. ASSUME NEW b \in Queued, b # a PROVE b \in Queued'
      <3>1. ActiveTimer(b) \in activeTimers /\ ActiveTimer(b) # ActiveTimer(a)
        BY <2>2, Owners DEF ActiveTimer
      <3>2. ActiveTimer(b)[1] = b
        BY DEF ActiveTimer
      <3>3. QED
        BY <3>1, <3>2 DEF Queued
    <2>3. QED
      BY <2>1, <2>2
  <1>5. InBatch' = InBatch /\ InFlight' = InFlight
    BY Owners DEF InBatch, InFlight, Targets
  <1>6. Allocated' = Allocated \ {a}
    BY <1>1 DEF Allocated, NoTimer
  <1>7. SetsAgree'
    <2>1. ASSUME NEW t \in activeTimers'
          PROVE  (t = ActiveTimer(t[1]) /\ Entry(t[1]) \in timers)'
      <3>1. t[1] \in Addrs \ {a} /\ t = ActiveTimer(t[1]) /\ Entry(t[1]) \in timers
        BY <1>2, Owners DEF Agreement, SetsAgree
      <3>2. Entry(t[1]) # Entry(a)
        BY <3>1 DEF Entry
      <3>3. QED
        BY <1>1, <3>1, <3>2 DEF ActiveTimer, Entry
    <2>2. ASSUME NEW e \in timers'
          PROVE  (e = Entry(e[2]) /\ ActiveTimer(e[2]) \in activeTimers)'
      <3>1. e[2] \in Addrs \ {a} /\ e = Entry(e[2]) /\ ActiveTimer(e[2]) \in activeTimers
        BY <1>3, Owners DEF Agreement, SetsAgree
      <3>2. ActiveTimer(e[2]) # ActiveTimer(a)
        BY <3>1 DEF ActiveTimer
      <3>3. QED
        BY <1>1, <3>1, <3>2 DEF ActiveTimer, Entry
    <2>3. QED
      BY <2>1, <2>2 DEF SetsAgree
  <1>8. OneOwner'
    <2>1. Distinct(pending)'
      BY DEF Distinct, Adds
    <2>2. a \notin InBatch \cup InFlight
      BY DEF Agreement, OneOwner
    <2>3. QED
      BY <1>4, <1>5, <1>6, <2>1, <2>2 DEF Agreement, OneOwner, Distinct
  <1>9. (\A e \in expired : e = Entry(e[2]))'
    <2> SUFFICES ASSUME NEW e \in expired PROVE e = <<heap'[e[2]].expiration, e[2]>>
      BY DEF Entry
    <2>1. e[2] \in Addrs \ {a} /\ e = Entry(e[2])
      BY Owners DEF Agreement, OneOwner
    <2>2. QED
      BY <1>1, <2>1 DEF Entry
  <1>10. QED
    BY <1>7, <1>8, <1>9 DEF Agreement

\* getExpired() moves timers from the sets to the batch.
LEMMA ExpireMoves ==
  ASSUME TypeOK, Agreement, expired = {},
         expired' = {e \in timers : e[1] <= clock},
         timers' = timers \ expired',
         activeTimers' = activeTimers \ {ActiveTimer(e[2]) : e \in expired'},
         UNCHANGED <<heap, pending>>
  PROVE  Agreement'
  <1> DEFINE Due(a) == Entry(a) \in expired'
  <1>1. \A e \in timers : e = Entry(e[2]) /\ e[2] \in Queued /\ e[2] \in Addrs
    BY Owners DEF Agreement, SetsAgree
  <1>2. \A t \in activeTimers : t = ActiveTimer(t[1]) /\ t[1] \in Queued
                                  /\ Entry(t[1]) \in timers /\ t[1] \in Addrs
    BY Owners DEF Agreement, SetsAgree
  <1>3. \A a, b \in Addrs : (ActiveTimer(a) = ActiveTimer(b) => a = b)
                              /\ (Entry(a) = Entry(b) => a = b)
    BY DEF ActiveTimer, Entry
  <1>4. \A a \in Queued : ActiveTimer(a) \in activeTimers' <=> ~Due(a)
    <2> SUFFICES ASSUME NEW a \in Queued
                 PROVE  ActiveTimer(a) \in activeTimers' <=> ~Due(a)
      OBVIOUS
    <2>1. a \in Addrs /\ ActiveTimer(a) \in activeTimers /\ Entry(a)[2] = a
      BY Owners DEF Entry
    <2>2. ASSUME Due(a) PROVE ActiveTimer(a) \notin activeTimers'
      BY <2>1, <2>2
    <2>3. ASSUME ~Due(a) PROVE ActiveTimer(a) \in activeTimers'
      <3>1. SUFFICES ASSUME NEW e \in expired', ActiveTimer(a) = ActiveTimer(e[2])
                     PROVE  FALSE
        BY <2>1
      <3>2. a = e[2] /\ e = Entry(e[2])
        BY <1>1, <1>3, <2>1, <3>1
      <3>3. QED
        BY <2>3, <3>2
    <2>4. QED
      BY <2>2, <2>3
  <1>5. \A a \in Queued : Entry(a) \in timers' <=> ~Due(a)
    BY Owners
  <1>6. Queued' = {a \in Queued : ~Due(a)}
    <2>1. \A t \in activeTimers' : t[1] \in Queued /\ ~Due(t[1])
      BY <1>2, <1>4
    <2>2. \A a \in Queued : ~Due(a) => ActiveTimer(a) \in activeTimers'
      BY <1>4
    <2>3. \A a : ActiveTimer(a)[1] = a
      BY DEF ActiveTimer
    <2>4. QED
      BY <2>1, <2>2, <2>3 DEF Queued
  <1>7. InBatch' = {a \in Queued : Due(a)}
    <2>1. \A e \in expired' : e[2] \in Queued /\ Due(e[2])
      BY <1>1
    <2>2. \A a : Entry(a)[2] = a
      BY DEF Entry
    <2>3. QED
      BY <2>1, <2>2 DEF InBatch
  <1>8. InFlight' = InFlight /\ Allocated' = Allocated /\ InBatch = {}
    BY DEF InFlight, Allocated, Adds, InBatch
  <1>9. SetsAgree'
    <2>1. \A t \in activeTimers' : t = ActiveTimer(t[1]) /\ Entry(t[1]) \in timers'
      BY <1>2, <1>4, <1>5
    <2>2. \A e \in timers' : e = Entry(e[2]) /\ ActiveTimer(e[2]) \in activeTimers'
      BY <1>1, <1>4, <1>5
    <2>3. QED
      BY <2>1, <2>2 DEF SetsAgree, ActiveTimer, Entry
  <1>10. OneOwner'
    <2>1. (\A i, j \in Adds(pending) : pending[i].id[1] = pending[j].id[1] => i = j)'
      BY DEF Agreement, OneOwner, Adds
    <2>2. QED
      BY <1>6, <1>7, <1>8, <2>1 DEF Agreement, OneOwner
  <1>11. (\A e \in expired : e = Entry(e[2]))'
    BY <1>1 DEF Entry
  <1>12. QED
    BY <1>9, <1>10, <1>11 DEF Agreement

\* reset() restarts some timers of the batch and deletes the others.
LEMMA ResetMoves ==
  ASSUME TypeOK, Agreement,
         NEW again \in SUBSET InBatch,
         heap' \in [Addrs -> Timer],
         \A a \in Addrs \ InBatch : heap'[a] = heap[a],
         \A a \in again : heap'[a].sequence = heap[a].sequence,
         \A a \in InBatch \ again : heap'[a] = NoTimer,
         timers' = timers \cup {<<heap'[a].expiration, a>> : a \in again},
         activeTimers' = activeTimers \cup {ActiveTimer(a) : a \in again},
         expired' = {}, UNCHANGED pending
  PROVE  Agreement'
  <1>1. \A t \in activeTimers :
          /\ t[1] \in Queued /\ t[1] \in Addrs \ InBatch
          /\ t = ActiveTimer(t[1]) /\ Entry(t[1]) \in timers
    BY Owners DEF Agreement, SetsAgree, OneOwner
  <1>2. \A e \in timers :
          /\ e[2] \in Queued /\ e[2] \in Addrs \ InBatch
          /\ e = Entry(e[2]) /\ ActiveTimer(e[2]) \in activeTimers
    BY Owners DEF Agreement, SetsAgree, OneOwner
  <1>3. again \subseteq Addrs /\ \A a : ActiveTimer(a)[1] = a
    BY Owners DEF ActiveTimer
  <1>4. \A a \in again : heap[a].sequence # 0
    BY Owners
  <1>5. SetsAgree'
    <2>1. ASSUME NEW t \in activeTimers'
          PROVE  (t = ActiveTimer(t[1]) /\ Entry(t[1]) \in timers)'
      <3>1. CASE t \in activeTimers
        BY <1>1, <3>1 DEF ActiveTimer, Entry
      <3>2. ASSUME NEW a \in again, t = ActiveTimer(a)
            PROVE  (t = ActiveTimer(t[1]) /\ Entry(t[1]) \in timers)'
        BY <1>3, <3>2 DEF ActiveTimer, Entry
      <3>3. QED
        BY <3>1, <3>2
    <2>2. ASSUME NEW e \in timers'
          PROVE  (e = Entry(e[2]) /\ ActiveTimer(e[2]) \in activeTimers)'
      <3>1. CASE e \in timers
        BY <1>2, <3>1 DEF ActiveTimer, Entry
      <3>2. ASSUME NEW a \in again, e = <<heap'[a].expiration, a>>
            PROVE  (e = Entry(e[2]) /\ ActiveTimer(e[2]) \in activeTimers)'
        BY <1>3, <3>2 DEF ActiveTimer, Entry
      <3>3. QED
        BY <3>1, <3>2
    <2>3. QED
      BY <2>1, <2>2 DEF SetsAgree
  <1>6. Queued' = Queued \cup again
    <2>1. \A b : b \in Queued' <=>
                   (\E t \in activeTimers : b = t[1]) \/ \E a \in again : b = ActiveTimer(a)[1]
      BY DEF Queued
    <2>2. \A b : b \in Queued <=> \E t \in activeTimers : b = t[1]
      BY DEF Queued
    <2>3. \A b : b \in Queued' <=> b \in Queued \/ b \in again
      BY <1>3, <2>1, <2>2
    <2>4. QED
      BY <2>3
  <1>7. InBatch' = {} /\ InFlight' = InFlight
    BY DEF InBatch, InFlight, Adds
  <1>8. Allocated' = Allocated \ (InBatch \ again)
    BY <1>3, <1>4, Owners DEF Allocated, NoTimer
  <1>9. OneOwner'
    <2>1. (\A i, j \in Adds(pending) : pending[i].id[1] = pending[j].id[1] => i = j)'
      BY DEF Agreement, OneOwner, Adds
    <2>2. QED
      BY <1>6, <1>7, <1>8, <2>1 DEF Agreement, OneOwner
  <1>10. QED
    BY <1>5, <1>9 DEF Agreement

-----------------------------------------------------------------------------
(* Types.                                                                  *)

\* The order of timers_ is a well-order: a set of entries has a first one.
LEMMA EarliestIsFirst ==
  ASSUME NEW S \in SUBSET (Nat \X Nat), S # {}
  PROVE  Earliest(S) \in S /\ \A f \in S : Before(Earliest(S), f)
  <1> DEFINE Less == OpToRel(<, Nat)
             Lex == LexPairOrdering(Less, Less, Nat, Nat)
  <1>1. \A m, n \in Nat : <<m, n>> \in Less <=> m < n
    BY DEF OpToRel
  <1>2. IsWellFoundedOn(Less, Nat)
    BY NatLessThanWellFounded, Zenon
  <1> HIDE DEF Less
  <1>3. IsWellFoundedOn(Lex, Nat \X Nat)
    BY <1>2, WFLexPairOrdering
  <1>4. \A e, f \in Nat \X Nat :
          <<f, e>> \in Lex <=> f[1] < e[1] \/ (f[1] = e[1] /\ f[2] < e[2])
    BY <1>1 DEF LexPairOrdering
  <1> HIDE DEF Lex
  <1>5. PICK e \in S : \A f \in S : ~(<<f, e>> \in Lex)
    BY <1>3, WFMin
  <1>6. \A f \in S : Before(e, f)
    <2> SUFFICES ASSUME NEW f \in S PROVE Before(e, f)
      OBVIOUS
    <2>1. e \in Nat \X Nat /\ f \in Nat \X Nat /\ <<f, e>> \notin Lex
      BY <1>5
    <2>2. e[1] \in Nat /\ e[2] \in Nat /\ f[1] \in Nat /\ f[2] \in Nat
      BY <2>1
    <2>3. ~(f[1] < e[1] \/ (f[1] = e[1] /\ f[2] < e[2]))
      BY <1>4, <2>1
    <2>4. QED
      BY <2>2, <2>3 DEF Before
  <1>7. QED
    BY <1>6 DEF Earliest

\* The first entry of a set of timers.
LEMMA FirstTimer ==
  ASSUME NEW S \in SUBSET (Nat \X Addrs), S # {}
  PROVE  /\ Earliest(S) \in S /\ Earliest(S)[1] \in Nat
         /\ \A f \in S : Earliest(S)[1] <= f[1]
  <1>1. S \in SUBSET (Nat \X Nat)
    BY TimerQueueAssumption
  <1>2. Earliest(S) \in S /\ \A f \in S : Before(Earliest(S), f)
    BY <1>1, EarliestIsFirst
  <1>3. \A f \in S : f[1] \in Nat
    OBVIOUS
  <1>4. QED
    BY <1>2, <1>3 DEF Before

\* What resetTimerfd() sets.
LEMMA ArmType ==
  ASSUME clock \in Nat, NEW x \in Nat, Arm(x)
  PROVE  /\ timerfd' \in [left : Nat, readable : BOOLEAN]
         /\ timerfd'.left > 0
         /\ timerfd'.left <= 1 \/ clock + timerfd'.left = x
         /\ x = 0 => timerfd'.left = 1
  BY DEF Arm

\* addTimerInLoop() keeps the types of what it changes.
LEMMA AddType ==
  ASSUME TypeOK, NEW a \in Addrs, NEW sequence \in 0 .. MaxTimers, NEW when \in Nat,
         AddTimerInLoop(a, sequence, when)
  PROVE  /\ timers' \subseteq Nat \X Addrs
         /\ activeTimers' \subseteq TimerId
         /\ cancelingTimers' = cancelingTimers
         /\ timerfd' \in [left : Nat, readable : BOOLEAN]
  <1>1. timers' \subseteq Nat \X Addrs /\ activeTimers' \subseteq TimerId
    BY DEF AddTimerInLoop, Insert, TypeOK, TimerId
  <1>2. timerfd' \in [left : Nat, readable : BOOLEAN]
    BY ArmType, TimerQueueAssumption DEF AddTimerInLoop, TypeOK
  <1>3. QED
    BY <1>1, <1>2 DEF AddTimerInLoop

\* The sequence numbers of allocated Timers.
LEMMA SequenceRange ==
  ASSUME TypeOK
  PROVE  \A a \in Addrs : heap[a].sequence # 0 => heap[a].sequence \in 1 .. MaxTimers
  <1>1. \A a \in Addrs : heap[a].sequence \in 0 .. MaxTimers
    BY DEF TypeOK, Timer
  <1>2. QED
    BY <1>1, TimerQueueAssumption

\* cancelInLoop() keeps the types of what it changes.
LEMMA CancelType ==
  ASSUME Inv, NEW id \in TimerId, CancelInLoop(id)
  PROVE  /\ heap' \in [Addrs -> Timer]
         /\ timers' \subseteq Nat \X Addrs
         /\ activeTimers' \subseteq TimerId
         /\ cancelingTimers' \subseteq TimerId
         /\ cancelled' \subseteq 1 .. MaxTimers
         /\ UNCHANGED <<numCreated, ids, done>>
  <1>1. Agreement
    BY DEF Inv, BatchAgrees, Agreement
  <1>2. NoTimer \in Timer
    BY TimerQueueAssumption DEF NoTimer, Timer
  <1>3. heap' \in [Addrs -> Timer] /\ timers' \subseteq Nat \X Addrs
          /\ activeTimers' \subseteq TimerId /\ cancelingTimers' \subseteq TimerId
    BY <1>2 DEF CancelInLoop, Inv, TypeOK, TimerId
  <1>4. cancelled' \subseteq 1 .. MaxTimers
    <2>1. \A a \in Addrs : heap[a].sequence # 0 => heap[a].sequence \in 1 .. MaxTimers
      BY SequenceRange DEF Inv
    <2>2. ASSUME Found(id) PROVE id[2] \in 1 .. MaxTimers
      <3>1. id[1] \in Addrs /\ id[1] \in Queued /\ id[2] = heap[id[1]].sequence
        BY <1>1, <2>2, Owners DEF Found, Inv, TimerId
      <3>2. heap[id[1]].sequence # 0
        BY <1>1, <3>1, Owners DEF Inv
      <3>3. QED
        BY <2>1, <3>1, <3>2
    <2>3. ASSUME NEW e \in expired, id = ActiveTimer(e[2]) PROVE id[2] \in 1 .. MaxTimers
      <3>1. e[2] \in Addrs /\ e[2] \in InBatch /\ id[2] = heap[e[2]].sequence
        BY <1>1, <2>3, Owners DEF ActiveTimer, Inv
      <3>2. heap[e[2]].sequence # 0
        BY <1>1, <3>1, Owners DEF Inv
      <3>3. QED
        BY <2>1, <3>1, <3>2
    <2>4. QED
      BY <2>2, <2>3 DEF CancelInLoop, Inv, TypeOK
  <1>5. QED
    BY <1>3, <1>4 DEF CancelInLoop

\* new Timer keeps the types.
LEMMA NewType ==
  ASSUME TypeOK, NEW a \in Addrs, NEW when \in Whens, NEW interval \in Intervals,
         NewTimer(a, when, interval)
  PROVE  /\ heap' \in [Addrs -> Timer]
         /\ numCreated' \in 1 .. MaxTimers
         /\ heap'[a].sequence = numCreated' /\ heap'[a].expiration = when
         /\ \A b \in Addrs \ {a} : heap'[b] = heap[b]
         /\ when \in Nat
  <1>1. numCreated' \in 1 .. MaxTimers /\ when \in Nat
    BY TimerQueueAssumption DEF NewTimer, TypeOK
  <1>2. [sequence |-> numCreated', expiration |-> when, interval |-> interval] \in Timer
    BY <1>1, TimerQueueAssumption DEF Timer
  <1>3. heap'[a] = [sequence |-> numCreated', expiration |-> when,
                    interval |-> interval]
    BY DEF NewTimer, TypeOK
  <1>4. QED
    BY <1>1, <1>2, <1>3 DEF NewTimer, TypeOK

\* new Timer in another thread: the Timer is in flight to the loop thread.
LEMMA NewInFlight ==
  ASSUME TypeOK, Agreement, NEW a \in Addrs, a \notin Allocated,
         heap'[a].sequence # 0,
         \A b \in Addrs \ {a} : heap'[b] = heap[b],
         UNCHANGED <<timers, activeTimers, expired>>,
         Targets(pending') = Targets(pending) \cup {a}, Distinct(pending')
  PROVE  Agreement'
  <1>1. a \notin Queued \cup InBatch \cup InFlight
    BY DEF Agreement, OneOwner
  <1>2. Queued' = Queued /\ InBatch' = InBatch
    BY DEF Queued, InBatch
  <1>3. InFlight' = InFlight \cup {a}
    BY Owners DEF InFlight, Targets
  <1>4. Allocated' = Allocated \cup {a}
    BY DEF Allocated
  <1>5. SetsAgree'
    <2>1. \A t \in activeTimers : t[1] \in Addrs \ {a} /\ t = ActiveTimer(t[1])
                                    /\ Entry(t[1]) \in timers
      BY <1>1, Owners DEF Agreement, SetsAgree
    <2>2. \A e \in timers : e[2] \in Addrs \ {a} /\ e = Entry(e[2])
                              /\ ActiveTimer(e[2]) \in activeTimers
      BY <1>1, Owners DEF Agreement, SetsAgree
    <2>3. QED
      BY <2>1, <2>2 DEF SetsAgree, ActiveTimer, Entry
  <1>6. OneOwner'
    <2>1. Distinct(pending)'
      BY DEF Distinct, Adds
    <2>2. QED
      BY <1>1, <1>2, <1>3, <1>4, <2>1 DEF Agreement, OneOwner, Distinct
  <1>7. (\A e \in expired : e = Entry(e[2]))'
    <2>1. \A e \in expired : e[2] \in Addrs \ {a} /\ e = Entry(e[2])
      BY <1>1, Owners DEF Agreement
    <2>2. QED
      BY <2>1 DEF Entry
  <1>8. QED
    BY <1>5, <1>6, <1>7 DEF Agreement

-----------------------------------------------------------------------------
(* Every action preserves the invariant.                                   *)

\* The invariant, in the parts the lemmas use.
LEMMA InvParts ==
  /\ Inv <=> TypeOK /\ Agreement /\ (~callingExpiredTimers => expired = {})
  /\ Inv' <=> TypeOK' /\ Agreement' /\ (~callingExpiredTimers => expired = {})'
  BY DEF Inv, BatchAgrees, Agreement

LEMMA AddTimerStep ==
  ASSUME Inv, NEW a \in Addrs, NEW when \in Whens, NEW interval \in Intervals,
         AddTimer(a, when, interval)
  PROVE  Inv'
  <1>1. TypeOK /\ Agreement /\ (~callingExpiredTimers => expired = {})
    BY InvParts
  <1>2. /\ NewTimer(a, when, interval)
        /\ AddTimerInLoop(a, numCreated', when)
        /\ ids' = ids \cup {<<a, numCreated'>>}
        /\ UNCHANGED <<batch, history, clock, polled, pending, adding>>
    BY DEF AddTimer
  <1>3. /\ heap' \in [Addrs -> Timer] /\ numCreated' \in 1 .. MaxTimers
        /\ heap'[a].sequence = numCreated' /\ heap'[a].expiration = when
        /\ \A b \in Addrs \ {a} : heap'[b] = heap[b]
        /\ when \in Nat
    BY <1>1, <1>2, NewType
  <1>4. numCreated' \in 0 .. MaxTimers /\ numCreated' # 0
    BY <1>3, TimerQueueAssumption
  <1>5. TypeOK'
    <2>1. /\ timers' \subseteq Nat \X Addrs
          /\ activeTimers' \subseteq TimerId
          /\ cancelingTimers' = cancelingTimers
          /\ timerfd' \in [left : Nat, readable : BOOLEAN]
      BY <1>1, <1>2, <1>3, <1>4, AddType
    <2>2. ids' \subseteq TimerId
      BY <1>1, <1>2, <1>4 DEF TypeOK, TimerId
    <2>3. QED
      BY <1>1, <1>2, <1>3, <1>4, <2>1, <2>2 DEF TypeOK, batch, history, TimerId
  <1>6. Agreement'
    <2>1. a \notin Queued \cup InBatch \cup InFlight
      BY <1>1, <1>2 DEF NewTimer, Agreement, OneOwner
    <2>2. Targets(pending') = Targets(pending) \ {a} /\ Distinct(pending')
      BY <1>1, <1>2, <2>1, Owners DEF Distinct
    <2>3. /\ timers' = timers \cup {<<heap'[a].expiration, a>>}
          /\ activeTimers' = activeTimers \cup {<<a, heap'[a].sequence>>}
          /\ expired' = expired
      BY <1>2, <1>3 DEF AddTimerInLoop, Insert, batch
    <2>4. QED
      BY <1>1, <1>3, <1>4, <2>1, <2>2, <2>3, InsertMoves
  <1>7. QED
    BY <1>1, <1>2, <1>5, <1>6, InvParts DEF batch

\* cancelInLoop(), with the queue of calls as it is or one shorter.
LEMMA CancelInLoopStep ==
  ASSUME Inv, NEW id \in TimerId, CancelInLoop(id),
         UNCHANGED <<batch, alarm, adding>>,
         pending' \in Seq(Call),
         Targets(pending') = Targets(pending), Distinct(pending')
  PROVE  Inv'
  <1>1. TypeOK /\ Agreement /\ (~callingExpiredTimers => expired = {})
    BY InvParts
  <1>2. TypeOK'
    BY <1>1, CancelType DEF TypeOK, batch, alarm, Call, TimerId
  <1>3. Agreement'
    <2>1. expired' = expired
      BY DEF batch
    <2>2. CASE Found(id)
      <3>1. id[1] \in Addrs /\ id[1] \in Queued
        BY <1>1, <2>2, Owners DEF Found, TimerId
      <3>2. QED
        BY <1>1, <2>1, <2>2, <3>1, CancelMoves DEF CancelInLoop
    <2>3. CASE ~Found(id)
      BY <1>1, <2>1, <2>3, NothingMoves DEF CancelInLoop
    <2>4. QED
      BY <2>2, <2>3
  <1>4. QED
    BY <1>1, <1>2, <1>3, InvParts DEF batch

LEMMA RunPendingStep ==
  ASSUME Inv, RunPending
  PROVE  Inv'
  <1>1. TypeOK /\ Agreement /\ (~callingExpiredTimers => expired = {})
    BY InvParts
  <1> DEFINE call == Head(pending)
             a == call.id[1]
  <1>2. pending \in Seq(Call) /\ pending # << >> /\ Distinct(pending)
          /\ InFlight = Targets(pending)
    BY <1>1, Owners DEF RunPending, TypeOK, Call
  <1>3. /\ call \in Call
        /\ Tail(pending) \in Seq(Call)
        /\ Distinct(Tail(pending))
        /\ call.op = "cancel" => Targets(Tail(pending)) = Targets(pending)
        /\ call.op = "add" =>
              /\ a \in Targets(pending)
              /\ Targets(Tail(pending)) = Targets(pending) \ {a}
    BY <1>2, TakeCall
  <1>4. /\ pending' = Tail(pending)
        /\ UNCHANGED <<batch, clock, polled, adding>>
    BY DEF RunPending
  <1>5. ASSUME call.op = "add",
               AddTimerInLoop(a, heap[a].sequence, heap[a].expiration),
               UNCHANGED <<objects, history>>
        PROVE  Inv'
    <2>1. a \in Addrs
      BY <1>3 DEF Call, TimerId
    <2>2. heap[a].sequence \in 0 .. MaxTimers /\ heap[a].expiration \in Nat
      BY <1>1, <2>1 DEF TypeOK, Timer
    <2>3. a \in InFlight /\ a \notin Queued \cup InBatch /\ heap[a].sequence # 0
      BY <1>1, <1>2, <1>3, <1>5, Owners DEF Agreement, OneOwner
    <2>4. TypeOK'
      <3>1. /\ timers' \subseteq Nat \X Addrs
            /\ activeTimers' \subseteq TimerId
            /\ cancelingTimers' = cancelingTimers
            /\ timerfd' \in [left : Nat, readable : BOOLEAN]
        BY <1>1, <1>5, <2>1, <2>2, AddType
      <3>2. pending' \in Seq([op : {"add", "cancel"}, id : TimerId])
        BY <1>3, <1>4 DEF Call
      <3>3. QED
        BY <1>1, <1>4, <1>5, <3>1, <3>2 DEF TypeOK, batch, objects, history, TimerId
    <2>5. /\ timers' = timers \cup {<<heap'[a].expiration, a>>}
          /\ activeTimers' = activeTimers \cup {<<a, heap'[a].sequence>>}
          /\ heap' = heap /\ expired' = expired
      BY <1>4, <1>5 DEF AddTimerInLoop, Insert, batch, objects
    <2>6. heap' \in [Addrs -> Timer] /\ Targets(pending') = Targets(pending) \ {a}
            /\ Distinct(pending')
      BY <1>1, <1>3, <1>4, <1>5, <2>5 DEF TypeOK
    <2>7. Agreement'
      BY <1>1, <2>1, <2>3, <2>5, <2>6, InsertMoves
    <2>8. QED
      BY <1>1, <1>4, <2>4, <2>7, InvParts DEF batch
  <1>6. ASSUME call.op = "cancel", CancelInLoop(call.id), UNCHANGED timerfd
        PROVE  Inv'
    <2>1. call.id \in TimerId
      BY <1>3 DEF Call
    <2>2. QED
      BY <1>3, <1>4, <1>6, <2>1, CancelInLoopStep DEF alarm
  <1>7. QED
    BY <1>5, <1>6 DEF RunPending

LEMMA HandleReadStep ==
  ASSUME Inv, HandleRead
  PROVE  Inv'
  <1>1. TypeOK /\ Agreement /\ expired = {}
    BY InvParts DEF HandleRead
  <1>2. TypeOK'
    <2>1. timerfd' \in [left : Nat, readable : BOOLEAN]
      BY <1>1 DEF HandleRead, TypeOK
    <2>2. expired' \subseteq Nat \X Addrs /\ todo' \subseteq expired'
            /\ timers' \subseteq Nat \X Addrs /\ activeTimers' \subseteq TimerId
            /\ cancelingTimers' \subseteq TimerId
      BY <1>1 DEF HandleRead, TypeOK
    <2>3. now' \in 0 .. MaxClock /\ polled' \in BOOLEAN /\ callingExpiredTimers' \in BOOLEAN
      BY <1>1 DEF HandleRead, TypeOK
    <2>4. QED
      BY <1>1, <2>1, <2>2, <2>3 DEF HandleRead, TypeOK, objects, history
  <1>3. Agreement'
    BY <1>1, ExpireMoves DEF HandleRead, objects
  <1>4. QED
    BY <1>2, <1>3, InvParts DEF HandleRead

LEMMA RunTimerStep ==
  ASSUME Inv, RunTimer
  PROVE  Inv'
  <1>1. TypeOK /\ Agreement /\ (~callingExpiredTimers => expired = {})
    BY InvParts
  <1> DEFINE e == Earliest(todo)
  <1>2. e \in todo
    BY <1>1, FirstTimer DEF TypeOK, RunTimer
  <1>3. heap[e[2]].sequence \in 1 .. MaxTimers
    <2>1. e[2] \in InBatch /\ e[2] \in Addrs
      BY <1>1, <1>2, Owners DEF TypeOK
    <2>2. heap[e[2]].sequence # 0
      BY <1>1, <2>1, Owners
    <2>3. QED
      BY <1>1, <2>1, <2>2, SequenceRange
  <1>4. /\ todo' = todo \ {e} /\ done' = done \cup {<<heap[e[2]].sequence, heap[e[2]].interval>>}
        /\ inCallback' = TRUE
        /\ UNCHANGED <<callingExpiredTimers, expired, now, sets, objects,
                       cancelled, alarm, pending, adding>>
    BY DEF RunTimer
  <1> HIDE DEF e
  <1>5. done' \subseteq (1 .. MaxTimers) \X (Intervals \cup {0}) /\ todo' \subseteq expired
    <2>1. e[2] \in Addrs
      BY <1>1, <1>2 DEF TypeOK
    <2>2. heap[e[2]].interval \in Intervals \cup {0}
      BY <1>1, <2>1 DEF TypeOK, Timer
    <2>3. QED
      BY <1>1, <1>3, <1>4, <2>2 DEF TypeOK
  <1>6. TypeOK'
    BY <1>1, <1>4, <1>5 DEF TypeOK, sets, objects, alarm, TimerId
  <1>7. Agreement'
    BY <1>1, <1>4, Owners, NothingMoves DEF sets, objects, Distinct
  <1>8. QED
    BY <1>1, <1>4, <1>6, <1>7, InvParts

\* The steps that leave the Timers where they are.
LEMMA IdleStep ==
  ASSUME Inv, PollTimerfd \/ TimerReturns \/ Tick \/ UNCHANGED vars
  PROVE  Inv'
  <1>1. TypeOK /\ Agreement /\ (~callingExpiredTimers => expired = {})
    BY InvParts
  <1>2. UNCHANGED <<heap, timers, activeTimers, expired, callingExpiredTimers, pending>>
    BY DEF PollTimerfd, TimerReturns, Tick, vars, batch, sets, objects
  <1>3. Agreement'
    BY <1>1, <1>2, Owners, NothingMoves DEF Distinct
  <1>4. TypeOK'
    <2>1. CASE PollTimerfd
      BY <1>1, <2>1 DEF PollTimerfd, TypeOK, batch, sets, objects, history, TimerId
    <2>2. CASE TimerReturns
      BY <1>1, <2>2 DEF TimerReturns, TypeOK, sets, objects, history, alarm, TimerId
    <2>3. CASE Tick
      <3>1. clock' \in 0 .. MaxClock
        BY <1>1, <2>3, TimerQueueAssumption DEF Tick, TypeOK
      <3>2. timerfd' \in [left : Nat, readable : BOOLEAN]
        BY <1>1, <2>3 DEF Tick, TypeOK
      <3>3. QED
        BY <1>1, <2>3, <3>1, <3>2 DEF Tick, TypeOK, batch, sets, objects, history, TimerId
    <2>4. CASE UNCHANGED vars
      BY <1>1, <2>4 DEF vars, TypeOK, batch, sets, objects, history, alarm, TimerId
    <2>5. QED
      BY <2>1, <2>2, <2>3, <2>4
  <1>5. QED
    BY <1>1, <1>2, <1>3, <1>4, InvParts

LEMMA EndHandleReadStep ==
  ASSUME Inv, EndHandleRead
  PROVE  Inv'
  <1>1. TypeOK /\ Agreement
    BY InvParts
  <1> DEFINE again == {a \in InBatch : Restarts(a)}
  <1>2. /\ heap' = [a \in Addrs |-> IF a \in InBatch THEN AfterReset(a) ELSE heap[a]]
        /\ timers' = timers \cup {RestartEntry(a) : a \in again}
        /\ activeTimers' = activeTimers \cup {ActiveTimer(a) : a \in again}
    BY DEF EndHandleRead, InBatch
  <1>3. InBatch \subseteq Addrs
    BY <1>1, Owners
  <1>4. ASSUME NEW a \in again
        PROVE  /\ heap'[a].sequence = heap[a].sequence
               /\ RestartEntry(a) = <<heap'[a].expiration, a>>
               /\ heap'[a].expiration \in Nat
               /\ heap'[a] \in Timer
    <2>1. a \in Addrs /\ heap'[a] = [heap[a] EXCEPT !.expiration = now + heap[a].interval]
      BY <1>2, <1>3 DEF AfterReset
    <2>2. heap[a] \in Timer /\ heap[a].interval \in Nat /\ now \in Nat
      BY <1>1, <2>1, TimerQueueAssumption DEF TypeOK, Timer
    <2>3. QED
      BY <2>1, <2>2 DEF RestartEntry, Timer
  <1>5. ASSUME NEW a \in InBatch \ again PROVE heap'[a] = NoTimer
    BY <1>2, <1>3 DEF AfterReset
  <1>6. \A a \in Addrs \ InBatch : heap'[a] = heap[a]
    BY <1>2
  <1>7. heap' \in [Addrs -> Timer]
    <2>1. NoTimer \in Timer
      BY TimerQueueAssumption DEF NoTimer, Timer
    <2>2. \A a \in Addrs : heap'[a] \in Timer
      BY <1>1, <1>4, <1>5, <1>6, <2>1 DEF TypeOK
    <2>3. QED
      BY <1>2, <2>2
  <1>8. timers' = timers \cup {<<heap'[a].expiration, a>> : a \in again}
    BY <1>2, <1>4
  <1>9. Agreement'
    <2>1. expired' = {} /\ UNCHANGED pending
      BY DEF EndHandleRead
    <2>2. QED
      BY <1>1, <1>2, <1>4, <1>5, <1>6, <1>7, <1>8, <2>1, ResetMoves
  <1>10. TypeOK'
    <2>1. timers' \subseteq Nat \X Addrs
      BY <1>1, <1>3, <1>4, <1>8 DEF TypeOK
    <2>2. activeTimers' \subseteq TimerId
      BY <1>1, <1>2, <1>3 DEF TypeOK, TimerId, ActiveTimer, Timer
    <2>3. timerfd' \in [left : Nat, readable : BOOLEAN]
      <3>1. CASE timers' # {} /\ Earliest(timers')[1] > 0
        <4>1. Earliest(timers')[1] \in Nat
          BY <2>1, <3>1, FirstTimer
        <4>2. Arm(Earliest(timers')[1]) /\ clock \in Nat
          BY <1>1, <3>1, TimerQueueAssumption DEF EndHandleRead, TypeOK
        <4>3. QED
          BY <4>1, <4>2, ArmType
      <3>2. CASE ~(timers' # {} /\ Earliest(timers')[1] > 0)
        BY <1>1, <3>2 DEF EndHandleRead, TypeOK
      <3>3. QED
        BY <3>1, <3>2
    <2>4. /\ todo' = {} /\ expired' = {} /\ now' = 0 /\ callingExpiredTimers' = FALSE
          /\ UNCHANGED <<inCallback, cancelingTimers, numCreated, ids,
                         history, clock, polled, pending, adding>>
      BY DEF EndHandleRead
    <2>5. 0 \in 0 .. MaxClock
      BY TimerQueueAssumption
    <2>6. QED
      BY <1>1, <1>7, <2>1, <2>2, <2>3, <2>4, <2>5 DEF TypeOK, history, TimerId
  <1>11. QED
    BY <1>9, <1>10, InvParts DEF EndHandleRead

LEMMA CallAddTimerStep ==
  ASSUME Inv, NEW c \in Callers, NEW a \in Addrs, NEW when \in Whens,
         NEW interval \in Intervals, CallAddTimer(c, a, when, interval)
  PROVE  Inv'
  <1>1. TypeOK /\ Agreement /\ (~callingExpiredTimers => expired = {})
    BY InvParts
  <1> DEFINE call == [op |-> "add", id |-> <<a, numCreated'>>]
  <1>2. /\ NewTimer(a, when, interval)
        /\ pending' = Append(pending, call)
        /\ adding' = [adding EXCEPT ![c] = a]
        /\ UNCHANGED <<batch, sets, ids, history, alarm>>
    BY DEF CallAddTimer
  <1>3. /\ heap' \in [Addrs -> Timer] /\ numCreated' \in 1 .. MaxTimers
        /\ heap'[a].sequence = numCreated'
        /\ \A b \in Addrs \ {a} : heap'[b] = heap[b]
    BY <1>1, <1>2, NewType
  <1>4. numCreated' \in 0 .. MaxTimers /\ numCreated' # 0
    BY <1>3, TimerQueueAssumption
  <1>5. call \in Call /\ call.op = "add" /\ call.id[1] = a /\ pending \in Seq(Call)
    BY <1>1, <1>4 DEF Call, TimerId, TypeOK
  <1>6. a \notin Allocated /\ a \notin Targets(pending) /\ Distinct(pending)
    BY <1>1, <1>2, Owners DEF NewTimer, Agreement, OneOwner
  <1> HIDE DEF call
  <1>7. Targets(pending') = Targets(pending) \cup {a} /\ Distinct(pending')
    BY <1>2, <1>5, <1>6, AppendAdd
  <1>8. Agreement'
    BY <1>1, <1>2, <1>3, <1>4, <1>6, <1>7, NewInFlight DEF sets, batch
  <1>9. TypeOK'
    <2>1. pending' \in Seq([op : {"add", "cancel"}, id : TimerId])
      BY <1>2, <1>5 DEF Call
    <2>2. adding' \in [Callers -> Addrs \cup {NULL}]
      BY <1>1, <1>2 DEF TypeOK
    <2>3. QED
      BY <1>1, <1>2, <1>3, <1>4, <2>1, <2>2 DEF TypeOK, batch, sets, history, alarm, TimerId
  <1>10. QED
    BY <1>1, <1>2, <1>8, <1>9, InvParts DEF batch

LEMMA CallAddTimerReturnsStep ==
  ASSUME Inv, NEW c \in Callers, CallAddTimerReturns(c)
  PROVE  Inv'
  <1>1. TypeOK /\ Agreement /\ (~callingExpiredTimers => expired = {})
    BY InvParts
  <1>2. adding[c] \in Addrs
    BY <1>1 DEF CallAddTimerReturns, TypeOK
  <1>3. PICK sequence \in IF adding[c] \in Allocated
                            THEN {heap[adding[c]].sequence} ELSE 0 .. numCreated :
          ids' = ids \cup {<<adding[c], sequence>>}
    BY DEF CallAddTimerReturns
  <1>4. sequence \in 0 .. MaxTimers
    <2>1. heap[adding[c]].sequence \in 0 .. MaxTimers
      BY <1>1, <1>2 DEF TypeOK, Timer
    <2>2. numCreated \in 0 .. MaxTimers
      BY <1>1 DEF TypeOK
    <2>3. QED
      BY <1>3, <2>1, <2>2, TimerQueueAssumption
  <1>5. ids' \subseteq TimerId
    BY <1>1, <1>2, <1>3, <1>4 DEF TypeOK, TimerId
  <1>6. /\ adding' = [adding EXCEPT ![c] = NULL]
        /\ UNCHANGED <<batch, sets, heap, numCreated, history, alarm, pending>>
    BY DEF CallAddTimerReturns
  <1>7. adding' \in [Callers -> Addrs \cup {NULL}]
    BY <1>1, <1>6 DEF TypeOK
  <1>8. TypeOK'
    BY <1>1, <1>5, <1>6, <1>7 DEF TypeOK, batch, sets, history, alarm, TimerId
  <1>9. Agreement'
    BY <1>1, <1>6, Owners, NothingMoves DEF sets, batch, Distinct
  <1>10. QED
    BY <1>1, <1>6, <1>8, <1>9, InvParts DEF batch

LEMMA CallCancelStep ==
  ASSUME Inv, NEW c \in Callers, NEW id \in ids, CallCancel(c, id)
  PROVE  Inv'
  <1>1. TypeOK /\ Agreement /\ (~callingExpiredTimers => expired = {})
    BY InvParts
  <1> DEFINE call == [op |-> "cancel", id |-> id]
  <1>2. pending' = Append(pending, call)
          /\ UNCHANGED <<batch, sets, objects, history, alarm, adding>>
    BY DEF CallCancel
  <1>3. call \in Call /\ call.op = "cancel" /\ pending \in Seq(Call) /\ Distinct(pending)
    BY <1>1, Owners DEF Call, TypeOK
  <1> HIDE DEF call
  <1>4. Targets(pending') = Targets(pending) /\ Distinct(pending')
    BY <1>2, <1>3, AppendCancel
  <1>5. Agreement'
    BY <1>1, <1>2, <1>4, NothingMoves DEF objects, sets, batch
  <1>6. pending' \in Seq([op : {"add", "cancel"}, id : TimerId])
    BY <1>2, <1>3 DEF Call
  <1>7. TypeOK'
    BY <1>1, <1>2, <1>6 DEF TypeOK, batch, sets, objects, history, alarm, TimerId
  <1>8. QED
    BY <1>1, <1>2, <1>5, <1>7, InvParts DEF batch

LEMMA InvInit == Init => Inv
  <1> SUFFICES ASSUME Init PROVE Inv
    OBVIOUS
  <1>1. TypeOK
    <2>1. NoTimer \in Timer /\ 0 \in 0 .. MaxTimers /\ 0 \in 0 .. MaxClock
      BY TimerQueueAssumption DEF NoTimer, Timer
    <2>2. heap \in [Addrs -> Timer] /\ adding \in [Callers -> Addrs \cup {NULL}]
      BY <2>1 DEF Init
    <2>3. pending \in Seq([op : {"add", "cancel"}, id : TimerId])
      BY DEF Init
    <2>4. timerfd \in [left : Nat, readable : BOOLEAN]
      BY DEF Init
    <2>5. /\ timers = {} /\ activeTimers = {} /\ cancelingTimers = {}
          /\ expired = {} /\ todo = {} /\ ids = {} /\ done = {} /\ cancelled = {}
          /\ numCreated = 0 /\ now = 0 /\ clock = 0
          /\ callingExpiredTimers \in BOOLEAN /\ inCallback \in BOOLEAN
          /\ polled \in BOOLEAN
      BY DEF Init
    <2>6. QED
      BY <2>1, <2>2, <2>3, <2>4, <2>5 DEF TypeOK
  <1>2. Queued = {} /\ InBatch = {} /\ InFlight = {} /\ Adds(pending) = {}
    BY DEF Init, Queued, InBatch, InFlight, Adds
  <1>3. Allocated = {}
    BY DEF Init, Allocated, NoTimer
  <1>4. QED
    BY <1>1, <1>2, <1>3 DEF Inv, Init, SetsAgree, OneOwner, BatchAgrees

LEMMA InvNext == Inv /\ [Next]_vars => Inv'
  <1> SUFFICES ASSUME Inv, [Next]_vars PROVE Inv'
    OBVIOUS
  <1>1. ids \subseteq TimerId
    BY DEF Inv, TypeOK
  <1>2. CASE PollTimerfd \/ TimerReturns \/ Tick \/ UNCHANGED vars
    BY <1>2, IdleStep
  <1>3. CASE HandleRead
    BY <1>3, HandleReadStep
  <1>4. CASE RunTimer
    BY <1>4, RunTimerStep
  <1>5. CASE EndHandleRead
    BY <1>5, EndHandleReadStep
  <1>6. CASE RunPending
    BY <1>6, RunPendingStep
  <1>7. ASSUME NEW id \in ids, Cancel(id) PROVE Inv'
    <2>1. pending' = pending /\ pending \in Seq(Call) /\ Distinct(pending)
      BY <1>7, InvParts, Owners DEF Cancel, TypeOK, Call
    <2>2. CancelInLoop(id) /\ UNCHANGED <<batch, alarm, adding>>
      BY <1>7 DEF Cancel
    <2>3. id \in TimerId
      BY <1>1
    <2>4. QED
      BY <2>1, <2>2, <2>3, CancelInLoopStep
  <1>8. ASSUME NEW id \in ids, NEW c \in Callers, CallCancel(c, id) PROVE Inv'
    BY <1>8, CallCancelStep
  <1>9. ASSUME NEW a \in Addrs, NEW when \in Whens, NEW interval \in Intervals,
               AddTimer(a, when, interval)
        PROVE  Inv'
    BY <1>9, AddTimerStep
  <1>10. ASSUME NEW c \in Callers, NEW a \in Addrs, NEW when \in Whens,
                NEW interval \in Intervals, CallAddTimer(c, a, when, interval)
         PROVE  Inv'
    BY <1>10, CallAddTimerStep
  <1>11. ASSUME NEW c \in Callers, CallAddTimerReturns(c) PROVE Inv'
    BY <1>11, CallAddTimerReturnsStep
  <1>12. QED
    BY <1>2, <1>3, <1>4, <1>5, <1>6, <1>7, <1>8, <1>9, <1>10, <1>11
      DEF Next, HandleStep

LEMMA Invariance == Spec => []Inv
  BY InvInit, InvNext, PTL DEF Spec

-----------------------------------------------------------------------------
(***************************************************************************)
(* The alarm.  AlarmInTime speaks of the first timer outside handleRead(); *)
(* it is not inductive.  The strengthening says it of every timer, and of  *)
(* a timer with the invalid expiration 0 also inside handleRead(): reset() *)
(* does not arm the timerfd for such a timer, so addTimerInLoop() has to   *)
(* have done it.                                                           *)
(***************************************************************************)

\* The timerfd expires by time t, or has expired, or expires next.
WakesBy(t) ==
    \/ polled \/ timerfd.readable
    \/ /\ timerfd.left > 0
       /\ timerfd.left <= 1 \/ clock + timerfd.left <= t

\* The inductive form of AlarmInTime.
AlarmInv == \A e \in timers : ~callingExpiredTimers \/ e[1] = 0 => WakesBy(e[1])

\* The fields of a typed state that the alarm depends on, before and after
\* a step.
LEMMA AlarmTypes ==
  /\ TypeOK => /\ clock \in Nat /\ timerfd.left \in Nat
               /\ \A e \in timers : e[1] \in Nat
  /\ TypeOK' => /\ clock' \in Nat /\ timerfd'.left \in Nat
                /\ \A e \in timers' : e[1] \in Nat
  BY TimerQueueAssumption DEF TypeOK

\* A timerfd that expires by t expires by any later time.
LEMMA WakesLater ==
  ASSUME NEW t \in Nat, NEW u \in Nat, t <= u
  PROVE  /\ TypeOK /\ WakesBy(t) => WakesBy(u)
         /\ TypeOK' /\ WakesBy(t)' => WakesBy(u)'
  BY AlarmTypes DEF WakesBy

\* resetTimerfd() for time t.
LEMMA ArmWakes ==
  ASSUME TypeOK, NEW t \in Nat, Arm(t), clock' = clock
  PROVE  WakesBy(t)'
  <1>1. clock \in Nat
    BY AlarmTypes
  <1>2. /\ timerfd'.left > 0 /\ timerfd'.left \in Nat
        /\ timerfd'.left <= 1 \/ clock + timerfd'.left = t
    BY <1>1, ArmType
  <1>3. QED
    BY <1>1, <1>2 DEF WakesBy

\* addTimerInLoop(): the timerfd is set again exactly when the new timer is
\* the first, and otherwise an earlier timer already covers it.
LEMMA AddWakes ==
  ASSUME TypeOK, TypeOK', AlarmInv, NEW a \in Addrs, NEW sequence, NEW when \in Nat,
         AddTimerInLoop(a, sequence, when),
         UNCHANGED <<clock, polled, callingExpiredTimers>>
  PROVE  AlarmInv'
  <1> SUFFICES ASSUME NEW e \in timers', ~callingExpiredTimers \/ e[1] = 0
               PROVE  WakesBy(e[1])'
    BY DEF AlarmInv
  <1>1. timers' = timers \cup {<<when, a>>}
    BY DEF AddTimerInLoop, Insert
  <1>2. e[1] \in Nat
    BY AlarmTypes
  <1>3. CASE EarliestChanged(when)
    <2>1. Arm(when)
      BY <1>3 DEF AddTimerInLoop
    <2>2. WakesBy(when)'
      BY <2>1, ArmWakes
    <2>3. when <= e[1]
      BY <1>1, <1>2, <1>3 DEF EarliestChanged
    <2>4. QED
      BY <1>2, <2>2, <2>3, WakesLater
  <1>4. CASE ~EarliestChanged(when)
    <2>1. WakesBy(e[1])
      <3>1. CASE e \in timers
        BY <3>1 DEF AlarmInv
      <3>2. CASE e = <<when, a>>
        <4>1. PICK f \in timers : ~(when < f[1])
          BY <1>4 DEF EarliestChanged
        <4>2. f[1] \in Nat /\ f[1] <= e[1]
          BY <3>2, <4>1, AlarmTypes
        <4>3. WakesBy(f[1])
          BY <1>2, <4>2 DEF AlarmInv
        <4>4. QED
          BY <1>2, <4>2, <4>3, WakesLater
      <3>3. QED
        BY <1>1, <3>1, <3>2
    <2>2. timerfd' = timerfd
      BY <1>4 DEF AddTimerInLoop
    <2>3. QED
      BY <2>1, <2>2 DEF WakesBy
  <1>5. QED
    BY <1>3, <1>4

\* Steps that remove timers and leave the timerfd alone.
LEMMA RemoveWakes ==
  ASSUME AlarmInv, timers' \subseteq timers,
         UNCHANGED <<clock, polled, timerfd, callingExpiredTimers>>
  PROVE  AlarmInv'
  BY DEF AlarmInv, WakesBy

\* cancelInLoop() removes a timer or none.
LEMMA CancelWakes ==
  ASSUME NEW id, CancelInLoop(id)
  PROVE  timers' \subseteq timers
  BY DEF CancelInLoop

\* The timerfd counts down no slower than the clock goes on.
LEMMA TickWakes ==
  ASSUME TypeOK, AlarmInv, Tick
  PROVE  AlarmInv'
  <1> SUFFICES ASSUME NEW e \in timers, WakesBy(e[1]) PROVE WakesBy(e[1])'
    BY DEF AlarmInv, Tick, sets, batch
  <1>1. clock \in Nat /\ timerfd.left \in Nat /\ e[1] \in Nat
          /\ timerfd \in [left : Nat, readable : BOOLEAN]
    BY AlarmTypes DEF TypeOK
  <1>2. clock' <= clock + 1 /\ clock' \in Nat /\ polled' = polled
    BY <1>1, TimerQueueAssumption DEF Tick, TypeOK
  <1>3. CASE timerfd.left = 0
    BY <1>1, <1>2, <1>3 DEF Tick, WakesBy
  <1>4. CASE timerfd.left = 1
    BY <1>1, <1>4 DEF Tick, WakesBy
  <1>5. CASE timerfd.left > 1
    <2>1. timerfd' = [timerfd EXCEPT !.left = @ - 1]
      BY <1>1, <1>5 DEF Tick
    <2>2. timerfd'.left = timerfd.left - 1 /\ timerfd'.readable = timerfd.readable
      BY <1>1, <2>1
    <2>3. QED
      BY <1>1, <1>2, <1>5, <2>2 DEF WakesBy
  <1>6. QED
    BY <1>1, <1>3, <1>4, <1>5

\* reset() arms the timerfd for the first timer.  When that has expiration
\* 0 it does not, and the timer was added in a callback, not restarted.
LEMMA ResetWakes ==
  ASSUME Inv, TypeOK', AlarmInv, EndHandleRead
  PROVE  AlarmInv'
  <1> SUFFICES ASSUME NEW e \in timers' PROVE WakesBy(e[1])'
    BY DEF AlarmInv
  <1>1. TypeOK /\ Agreement
    BY InvParts
  <1>2. PICK first \in timers' : /\ first = Earliest(timers')
                                /\ first[1] \in Nat /\ first[1] <= e[1] /\ e[1] \in Nat
    BY FirstTimer DEF TypeOK
  <1>3. UNCHANGED <<clock, polled>>
    BY DEF EndHandleRead
  <1>4. CASE first[1] > 0
    <2>1. Arm(first[1])
      BY <1>2, <1>4 DEF EndHandleRead
    <2>2. WakesBy(first[1])'
      BY <1>1, <1>2, <1>3, <2>1, ArmWakes
    <2>3. QED
      BY <1>2, <2>2, WakesLater
  <1>5. CASE first[1] = 0
    <2>1. \A a \in InBatch : Restarts(a) => RestartEntry(a)[1] > 0
      <3>1. \A a \in InBatch : heap[a].interval \in Nat
        <4>1. InBatch \subseteq Addrs
          BY <1>1, Owners
        <4>2. \A a \in Addrs : heap[a].interval \in Intervals \cup {0}
          BY <1>1 DEF TypeOK, Timer
        <4>3. \A i \in Intervals \cup {0} : i \in Nat
          BY TimerQueueAssumption
        <4>4. QED
          BY <4>1, <4>2, <4>3, Zenon
      <3>2. now \in Nat
        BY <1>1, TimerQueueAssumption DEF TypeOK
      <3>3. QED
        BY <3>1, <3>2 DEF Restarts, RestartEntry
    <2>2. timers' = timers \cup {RestartEntry(a) : a \in {b \in InBatch : Restarts(b)}}
      BY DEF EndHandleRead, InBatch
    <2>3. first \in timers
      BY <1>2, <1>5, <2>1, <2>2
    <2>4. WakesBy(first[1])
      BY <1>5, <2>3 DEF AlarmInv
    <2>5. WakesBy(e[1])
      BY <1>1, <1>2, <1>5, <2>4, WakesLater
    <2>6. timerfd' = timerfd
      BY <1>2, <1>5 DEF EndHandleRead
    <2>7. QED
      BY <1>3, <2>5, <2>6 DEF WakesBy
  <1>6. QED
    BY <1>2, <1>4, <1>5

LEMMA AlarmNext == Inv /\ Inv' /\ AlarmInv /\ [Next]_vars => AlarmInv'
  <1> SUFFICES ASSUME Inv, Inv', AlarmInv, [Next]_vars PROVE AlarmInv'
    OBVIOUS
  <1>1. TypeOK /\ TypeOK'
    BY DEF Inv
  <1>2. CASE PollTimerfd
    BY <1>2 DEF PollTimerfd, AlarmInv, WakesBy, sets
  <1>3. CASE HandleRead
    <2>1. \A e \in timers' : e[1] # 0
      BY <1>1, <1>3, AlarmTypes DEF HandleRead
    <2>2. QED
      BY <1>3, <2>1 DEF HandleRead, AlarmInv
  <1>4. CASE RunTimer \/ TimerReturns \/ UNCHANGED vars
    BY <1>4, RemoveWakes DEF RunTimer, TimerReturns, vars, batch, sets, alarm
  <1>5. CASE EndHandleRead
    BY <1>1, <1>5, ResetWakes
  <1>6. CASE RunPending
    <2> DEFINE call == Head(pending)
               a == call.id[1]
    <2>1. UNCHANGED <<clock, polled, callingExpiredTimers>>
      BY <1>6 DEF RunPending, batch
    <2>2. ASSUME AddTimerInLoop(a, heap[a].sequence, heap[a].expiration)
          PROVE  AlarmInv'
      <3>1. call \in Call
        BY <1>6, InvParts, Owners, TakeCall DEF RunPending, TypeOK, Call
      <3>2. a \in Addrs
        BY <3>1 DEF Call, TimerId
      <3>3. heap[a].expiration \in Nat
        BY <1>1, <3>2 DEF TypeOK, Timer
      <3>4. QED
        BY <1>1, <2>1, <2>2, <3>2, <3>3, AddWakes
    <2>3. ASSUME CancelInLoop(call.id), UNCHANGED timerfd PROVE AlarmInv'
      BY <2>1, <2>3, CancelWakes, RemoveWakes
    <2>4. QED
      BY <1>6, <2>2, <2>3 DEF RunPending
  <1>7. CASE Tick
    BY <1>1, <1>7, TickWakes
  <1>8. ASSUME NEW id \in ids, Cancel(id) PROVE AlarmInv'
    BY <1>8, CancelWakes, RemoveWakes DEF Cancel, batch, alarm
  <1>9. ASSUME NEW id \in ids, NEW c \in Callers, CallCancel(c, id) PROVE AlarmInv'
    BY <1>9, RemoveWakes DEF CallCancel, batch, sets, alarm
  <1>10. ASSUME NEW a \in Addrs, NEW when \in Whens, NEW interval \in Intervals,
                AddTimer(a, when, interval)
         PROVE  AlarmInv'
    <2>1. AddTimerInLoop(a, numCreated', when)
            /\ UNCHANGED <<clock, polled, callingExpiredTimers>>
      BY <1>10 DEF AddTimer, batch
    <2>2. when \in Nat
      BY TimerQueueAssumption
    <2>3. QED
      BY <1>1, <2>1, <2>2, AddWakes
  <1>11. ASSUME NEW c \in Callers, NEW a \in Addrs, NEW when \in Whens,
                NEW interval \in Intervals, CallAddTimer(c, a, when, interval)
         PROVE  AlarmInv'
    BY <1>11, RemoveWakes DEF CallAddTimer, batch, sets, alarm
  <1>12. ASSUME NEW c \in Callers, CallAddTimerReturns(c) PROVE AlarmInv'
    BY <1>12, RemoveWakes DEF CallAddTimerReturns, batch, sets, alarm
  <1>13. QED
    BY <1>2, <1>3, <1>4, <1>5, <1>6, <1>7, <1>8, <1>9, <1>10, <1>11, <1>12
      DEF Next, HandleStep

\* Outside handleRead() the first timer is among those the alarm covers.
LEMMA AlarmImplied == Inv /\ AlarmInv => AlarmInTime
  <1> SUFFICES ASSUME Inv, AlarmInv, timers # {}, ~callingExpiredTimers
               PROVE  WakesBy(Earliest(timers)[1])
    BY DEF AlarmInTime, WakesBy
  <1>1. Earliest(timers) \in timers
    BY FirstTimer DEF Inv, TypeOK
  <1>2. QED
    BY <1>1 DEF AlarmInv

-----------------------------------------------------------------------------
(***************************************************************************)
(* The history.  That reset() deletes no timer too early and restarts none *)
(* too late in its life needs cancelingTimers_ to name exactly the timers  *)
(* of the batch that were cancelled, and sequence numbers to tell timers   *)
(* apart when an address is used again.                                    *)
(***************************************************************************)

\* Sequence numbers tell Timers apart, and only those given out are in the
\* history.
Numbered ==
    /\ \A a \in Allocated : heap[a].sequence \in 1 .. numCreated
    /\ \A a, b \in Allocated : heap[a].sequence = heap[b].sequence => a = b
    /\ \A d \in done : d[1] \in 1 .. numCreated
    /\ cancelled \subseteq 1 .. numCreated

\* A Timer that was cancelled and still exists is in the batch, where
\* cancelingTimers_ says so; a Timer that has run and does not repeat is in
\* the batch; and what left todo has run.
Remembered ==
    /\ \A a \in Allocated : heap[a].sequence \in cancelled => a \in InBatch
    /\ \A a \in InBatch :
         heap[a].sequence \in cancelled <=> ActiveTimer(a) \in cancelingTimers
    /\ \A a \in Allocated :
         (heap[a].interval = 0 /\ <<heap[a].sequence, 0>> \in done) => a \in InBatch
    /\ \A e \in expired \ todo : <<heap[e[2]].sequence, heap[e[2]].interval>> \in done

HistoryInv == Numbered /\ Remembered /\ NoTimerLost
\* What the steps use of the invariant.
LEMMA HistoryFacts ==
  ASSUME Inv
  PROVE  /\ TypeOK /\ Agreement /\ (~callingExpiredTimers => expired = {})
         /\ Allocated = Queued \cup InBatch \cup InFlight /\ Queued \cap InBatch = {}
         /\ InBatch \subseteq Allocated /\ Allocated \subseteq Addrs
         /\ \A e \in expired : e[2] \in InBatch
         /\ \A a \in InBatch : \E e \in expired : a = e[2]
         /\ numCreated \in Nat
  <1>1. TypeOK /\ Agreement /\ (~callingExpiredTimers => expired = {})
    BY InvParts
  <1>2. /\ Allocated = Queued \cup InBatch \cup InFlight /\ Queued \cap InBatch = {}
        /\ InBatch \subseteq Allocated /\ Allocated \subseteq Addrs
    BY <1>1 DEF Agreement, OneOwner, Allocated
  <1>3. numCreated \in Nat
    BY <1>1, TimerQueueAssumption DEF TypeOK
  <1>4. QED
    BY <1>1, <1>2, <1>3 DEF InBatch

\* new Timer: the number is new, and the Timer has no history.
LEMMA NewRemembered ==
  ASSUME Inv, HistoryInv, NEW a \in Addrs, NEW when \in Whens, NEW interval \in Intervals,
         NewTimer(a, when, interval),
         UNCHANGED <<expired, todo, cancelingTimers, done, cancelled>>
  PROVE  HistoryInv'
  <1>1. /\ numCreated' = numCreated + 1 /\ numCreated \in Nat
        /\ heap'[a].sequence = numCreated + 1
        /\ \A b \in Addrs \ {a} : heap'[b] = heap[b]
        /\ a \notin Allocated
    BY HistoryFacts, NewType DEF NewTimer
  <1>2. Allocated' = Allocated \cup {a}
    BY <1>1 DEF Allocated
  <1>3. \A b \in Allocated : heap'[b] = heap[b] /\ b # a
    BY <1>1 DEF Allocated
  <1>4. Numbered'
    BY <1>1, <1>2, <1>3 DEF HistoryInv, Numbered
  <1>5. InBatch' = InBatch /\ InBatch \subseteq Allocated
    BY HistoryFacts DEF InBatch
  <1>6. Remembered'
    <2>1. \A b \in Allocated' : heap'[b].sequence \in cancelled' => b \in InBatch'
      BY <1>1, <1>2, <1>3, <1>5 DEF HistoryInv, Numbered, Remembered
    <2>2. \A b \in InBatch' :
            heap'[b].sequence \in cancelled' <=> ActiveTimer(b)' \in cancelingTimers'
      BY <1>3, <1>5 DEF HistoryInv, Remembered, ActiveTimer
    <2>3. \A b \in Allocated' :
            (heap'[b].interval = 0 /\ <<heap'[b].sequence, 0>> \in done') => b \in InBatch'
      BY <1>1, <1>2, <1>3, <1>5 DEF HistoryInv, Numbered, Remembered
    <2>4. \A e \in expired' \ todo' : <<heap'[e[2]].sequence, heap'[e[2]].interval>> \in done'
      BY <1>3, <1>5, HistoryFacts DEF HistoryInv, Remembered
    <2>5. QED
      BY <2>1, <2>2, <2>3, <2>4 DEF Remembered
  <1>7. NoTimerLost'
    <2> SUFFICES ASSUME NEW s \in 1 .. numCreated', s \notin cancelled
                 PROVE  (\E b \in Addrs : heap'[b].sequence = s) \/ <<s, 0>> \in done
      BY DEF NoTimerLost
    <2>1. CASE s = numCreated + 1
      BY <1>1, <2>1
    <2>2. CASE s \in 1 .. numCreated
      <3>1. CASE <<s, 0>> \in done
        BY <3>1
      <3>2. CASE \E b \in Addrs : heap[b].sequence = s
        <4>1. PICK b \in Addrs : heap[b].sequence = s
          BY <3>2
        <4>2. b \in Allocated
          BY <2>2, <4>1 DEF Allocated
        <4>3. QED
          BY <1>3, <4>1, <4>2
      <3>3. QED
        BY <2>2, <3>1, <3>2 DEF HistoryInv, NoTimerLost
    <2>3. QED
      BY <1>1, <2>1, <2>2
  <1>8. QED
    BY <1>4, <1>6, <1>7 DEF HistoryInv

\* cancelInLoop(): a queued Timer is deleted, one of the batch is noted.
LEMMA CancelRemembered ==
  ASSUME Inv, HistoryInv, NEW id \in TimerId, CancelInLoop(id), UNCHANGED <<expired, todo>>
  PROVE  HistoryInv'
  <1>1. UNCHANGED <<numCreated, done>> /\ InBatch' = InBatch
    BY DEF CancelInLoop, InBatch
  <1>2. Numbered /\ Remembered /\ NoTimerLost
    BY DEF HistoryInv
  <1>3. InBatch \subseteq Allocated /\ Allocated \subseteq Addrs
    BY HistoryFacts
  <1>4. CASE Found(id)
    <2> DEFINE x == id[1]
    <2>1. x \in Queued /\ id[2] = heap[x].sequence /\ x \in Addrs
      BY <1>4, HistoryFacts, Owners DEF Found
    <2>2. x \in Allocated /\ x \notin InBatch
      BY <2>1, HistoryFacts
    <2>3. cancelled' = cancelled \cup {heap[x].sequence} /\ cancelingTimers' = cancelingTimers
      BY <1>4, <2>1 DEF CancelInLoop
    <2>4. heap' = [heap EXCEPT ![x] = NoTimer]
      BY <1>4 DEF CancelInLoop
    <2> HIDE DEF x
    <2>5. heap'[x].sequence = 0 /\ \A b \in Addrs \ {x} : heap'[b] = heap[b]
      <3>1. heap'[x] = NoTimer /\ \A b \in Addrs \ {x} : heap'[b] = heap[b]
        BY <2>1, <2>4, HistoryFacts DEF TypeOK
      <3>2. NoTimer.sequence = 0
        BY DEF NoTimer
      <3>3. QED
        BY <3>1, <3>2
    <2>6. Allocated' = Allocated \ {x}
      BY <2>1, <2>5 DEF Allocated
    <2>7. \A b \in Allocated \ {x} : heap'[b] = heap[b] /\ heap[b].sequence # heap[x].sequence
      BY <1>2, <1>3, <2>2, <2>5 DEF Numbered
    <2>8. Numbered'
      <3>1. /\ \A a \in Allocated' : heap'[a].sequence \in 1 .. numCreated'
            /\ \A a, b \in Allocated' : heap'[a].sequence = heap'[b].sequence => a = b
        BY <1>1, <1>2, <2>6, <2>7 DEF Numbered
      <3>2. cancelled' \subseteq 1 .. numCreated' /\ \A d \in done' : d[1] \in 1 .. numCreated'
        BY <1>1, <1>2, <2>2, <2>3 DEF Numbered
      <3>3. QED
        BY <3>1, <3>2 DEF Numbered
    <2>9. Remembered'
      <3>1. \A b \in Allocated' : heap'[b].sequence \in cancelled' => b \in InBatch'
        BY <1>1, <1>2, <2>3, <2>6, <2>7 DEF Remembered
      <3>2. \A b \in InBatch' :
              heap'[b].sequence \in cancelled' <=> ActiveTimer(b)' \in cancelingTimers'
        BY <1>1, <1>2, <1>3, <2>2, <2>3, <2>7 DEF Remembered, ActiveTimer
      <3>3. \A b \in Allocated' :
              (heap'[b].interval = 0 /\ <<heap'[b].sequence, 0>> \in done') => b \in InBatch'
        BY <1>1, <1>2, <2>6, <2>7 DEF Remembered
      <3>4. \A e \in expired' \ todo' : <<heap'[e[2]].sequence, heap'[e[2]].interval>> \in done'
        BY <1>1, <1>2, <1>3, <2>2, <2>7, HistoryFacts DEF Remembered
      <3>5. QED
        BY <3>1, <3>2, <3>3, <3>4 DEF Remembered
    <2>10. NoTimerLost'
      BY <1>1, <1>2, <2>3, <2>5 DEF NoTimerLost
    <2>11. QED
      BY <2>8, <2>9, <2>10 DEF HistoryInv
  <1>5. CASE ~Found(id)
    <2>1. heap' = heap /\ Allocated' = Allocated
      BY <1>5 DEF CancelInLoop, Allocated
    <2>2. CASE \E a \in InBatch : id = ActiveTimer(a)
      <3>1. PICK a \in InBatch : id = ActiveTimer(a)
        BY <2>2
      <3>2. PICK e \in expired : a = e[2]
        BY HistoryFacts
      <3>3. callingExpiredTimers
        BY <3>2, HistoryFacts
      <3>4. id[1] = a /\ id[2] = heap[a].sequence
        BY <3>1 DEF ActiveTimer
      <3>5. cancelled' = cancelled \cup {heap[a].sequence}
            /\ cancelingTimers' = cancelingTimers \cup {id}
        BY <1>5, <3>1, <3>2, <3>3, <3>4 DEF CancelInLoop
      <3>6. \A b \in InBatch \ {a} :
              ActiveTimer(b) # id /\ heap[b].sequence # heap[a].sequence
        BY <1>2, <1>3, <3>4 DEF Numbered, ActiveTimer
      <3>7. Numbered'
        BY <1>1, <1>2, <1>3, <2>1, <3>5 DEF Numbered
      <3>8. Remembered'
        <4>1. \A b \in Allocated' : heap'[b].sequence \in cancelled' => b \in InBatch'
          BY <1>1, <1>2, <1>3, <2>1, <3>5 DEF Remembered, Numbered
        <4>2. \A b \in InBatch' :
                heap'[b].sequence \in cancelled' <=> ActiveTimer(b)' \in cancelingTimers'
          BY <1>1, <1>2, <2>1, <3>1, <3>5, <3>6 DEF Remembered, ActiveTimer
        <4>3. QED
          BY <1>1, <1>2, <2>1, <4>1, <4>2 DEF Remembered
      <3>9. NoTimerLost'
        BY <1>1, <1>2, <2>1, <3>5 DEF NoTimerLost
      <3>10. QED
        BY <3>7, <3>8, <3>9 DEF HistoryInv
    <2>3. CASE ~ \E a \in InBatch : id = ActiveTimer(a)
      <3>1. cancelled' = cancelled
        BY <1>5, <2>3, HistoryFacts DEF CancelInLoop
      <3>2. \A b \in InBatch : ActiveTimer(b) \in cancelingTimers' <=> ActiveTimer(b) \in cancelingTimers
        BY <1>5, <2>3 DEF CancelInLoop
      <3>3. QED
        BY <1>1, <1>2, <2>1, <3>1, <3>2
          DEF HistoryInv, Numbered, Remembered, NoTimerLost, ActiveTimer
    <2>4. QED
      BY <2>2, <2>3
  <1>6. QED
    BY <1>4, <1>5

\* getExpired(): no Timer that exists outside handleRead() was cancelled.
LEMMA ExpireRemembered ==
  ASSUME Inv, Inv', HistoryInv, HandleRead
  PROVE  HistoryInv'
  <1>1. Numbered /\ Remembered /\ NoTimerLost
    BY DEF HistoryInv
  <1>2. /\ UNCHANGED <<heap, numCreated, done, cancelled>> /\ expired = {}
        /\ todo' = expired' /\ cancelingTimers' = {}
    BY HistoryFacts DEF HandleRead, objects, history
  <1>3. Allocated' = Allocated /\ InBatch = {}
    BY <1>2 DEF Allocated, InBatch
  <1>4. InBatch' \subseteq Allocated
    <2>1. (InBatch \subseteq Allocated)'
      BY InvParts DEF Agreement, OneOwner
    <2>2. QED
      BY <1>3, <2>1
  <1>5. \A a \in Allocated : heap[a].sequence \notin cancelled
          /\ ~(heap[a].interval = 0 /\ <<heap[a].sequence, 0>> \in done)
    BY <1>1, <1>3 DEF Remembered
  <1>6. Remembered'
    BY <1>2, <1>3, <1>4, <1>5 DEF Remembered
  <1>7. QED
    BY <1>1, <1>2, <1>3, <1>6 DEF HistoryInv, Numbered, NoTimerLost

\* A callback runs: its Timer is in the batch.
LEMMA RunRemembered ==
  ASSUME Inv, HistoryInv, RunTimer
  PROVE  HistoryInv'
  <1>1. Numbered /\ Remembered /\ NoTimerLost
    BY DEF HistoryInv
  <1> DEFINE e == Earliest(todo)
  <1>2. e \in todo /\ todo \subseteq expired
    BY HistoryFacts, FirstTimer DEF RunTimer, TypeOK
  <1>3. /\ todo' = todo \ {e} /\ done' = done \cup {<<heap[e[2]].sequence, heap[e[2]].interval>>}
        /\ UNCHANGED <<heap, numCreated, cancelled, cancelingTimers, expired>>
    BY DEF RunTimer, objects, sets
  <1> HIDE DEF e
  <1>4. e[2] \in InBatch /\ e[2] \in Allocated
    BY <1>2, HistoryFacts
  <1>5. Allocated' = Allocated /\ InBatch' = InBatch
    BY <1>3 DEF Allocated, InBatch
  <1>6. Numbered'
    BY <1>1, <1>3, <1>4, <1>5 DEF Numbered
  <1>7. Remembered'
    <2>1. \A a \in Allocated' :
            (heap'[a].interval = 0 /\ <<heap'[a].sequence, 0>> \in done') => a \in InBatch'
      BY <1>1, <1>3, <1>4, <1>5 DEF Remembered, Numbered
    <2>2. \A f \in expired' \ todo' : <<heap'[f[2]].sequence, heap'[f[2]].interval>> \in done'
      BY <1>1, <1>3 DEF Remembered
    <2>3. QED
      BY <1>1, <1>3, <1>5, <2>1, <2>2 DEF Remembered, ActiveTimer
  <1>8. NoTimerLost'
    BY <1>1, <1>3 DEF NoTimerLost
  <1>9. QED
    BY <1>6, <1>7, <1>8 DEF HistoryInv

\* reset(): what it deletes was cancelled or has run and does not repeat, what
\* it restarts repeats and was not cancelled.
LEMMA ResetRemembered ==
  ASSUME Inv, HistoryInv, EndHandleRead
  PROVE  HistoryInv'
  <1>1. Numbered /\ Remembered /\ NoTimerLost
    BY DEF HistoryInv
  <1>2. /\ heap' = [a \in Addrs |-> IF a \in InBatch THEN AfterReset(a) ELSE heap[a]]
        /\ UNCHANGED <<numCreated, done, cancelled>> /\ expired' = {} /\ todo = {}
    BY DEF EndHandleRead, InBatch, history
  <1>3. InBatch \subseteq Allocated /\ Allocated \subseteq Addrs
    BY HistoryFacts
  <1>4. \A a \in Addrs : a \notin InBatch => heap'[a] = heap[a]
    BY <1>2
  <1>5. \A a \in InBatch : Restarts(a) =>
          heap'[a].sequence = heap[a].sequence /\ heap'[a].interval = heap[a].interval
    <2> SUFFICES ASSUME NEW a \in InBatch, Restarts(a)
                 PROVE  heap'[a].sequence = heap[a].sequence
                        /\ heap'[a].interval = heap[a].interval
      OBVIOUS
    <2>1. heap'[a] = [heap[a] EXCEPT !.expiration = now + heap[a].interval]
      BY <1>2, <1>3 DEF AfterReset
    <2>2. heap[a] \in Timer
      BY <1>3, HistoryFacts DEF TypeOK
    <2>3. QED
      BY <2>1, <2>2 DEF Timer
  <1>6. \A a \in InBatch : ~Restarts(a) => heap'[a].sequence = 0
    <2>1. \A a \in InBatch : ~Restarts(a) => heap'[a] = NoTimer
      BY <1>2, <1>3 DEF AfterReset
    <2>2. QED
      BY <2>1 DEF NoTimer
  <1>7. \A a \in Allocated' :
          /\ a \in Allocated /\ (a \in InBatch => Restarts(a))
          /\ heap'[a].sequence = heap[a].sequence /\ heap'[a].interval = heap[a].interval
    BY <1>3, <1>4, <1>5, <1>6 DEF Allocated
  <1>8. InBatch' = {}
    BY <1>2 DEF InBatch
  <1>9. Numbered'
    BY <1>1, <1>2, <1>7 DEF Numbered
  <1>10. Remembered'
    <2>1. \A a \in Allocated' : heap'[a].sequence \notin cancelled
      BY <1>1, <1>7 DEF Remembered, Restarts
    <2>2. \A a \in Allocated' : ~(heap'[a].interval = 0 /\ <<heap'[a].sequence, 0>> \in done)
      BY <1>1, <1>7 DEF Remembered, Restarts
    <2>3. QED
      BY <1>2, <1>8, <2>1, <2>2 DEF Remembered
  <1>11. NoTimerLost'
    <2> SUFFICES ASSUME NEW s \in 1 .. numCreated, s \notin cancelled, <<s, 0>> \notin done
                 PROVE  \E a \in Addrs : heap'[a].sequence = s
      BY <1>2 DEF NoTimerLost
    <2>1. PICK a \in Addrs : heap[a].sequence = s
      BY <1>1 DEF NoTimerLost
    <2>2. CASE a \in InBatch
      <3>1. PICK e \in expired : a = e[2]
        BY <2>2, HistoryFacts
      <3>2. <<s, heap[a].interval>> \in done
        BY <1>1, <1>2, <2>1, <3>1 DEF Remembered
      <3>3. heap[a].interval \in Nat /\ heap[a].interval # 0
        BY <2>1, <3>2, HistoryFacts, TimerQueueAssumption DEF TypeOK, Timer
      <3>4. ActiveTimer(a) \notin cancelingTimers
        BY <1>1, <2>1, <2>2 DEF Remembered
      <3>5. QED
        BY <1>5, <2>1, <2>2, <3>3, <3>4 DEF Restarts
    <2>3. QED
      BY <1>4, <2>1, <2>2
  <1>12. QED
    BY <1>9, <1>10, <1>11 DEF HistoryInv

\* The other steps change nothing that the history depends on.
LEMMA IdleRemembered ==
  ASSUME HistoryInv,
         UNCHANGED <<heap, numCreated, expired, todo, cancelingTimers, done, cancelled>>
  PROVE  HistoryInv'
  BY DEF HistoryInv, Numbered, Remembered, NoTimerLost, Allocated, InBatch, ActiveTimer

LEMMA HistoryNext == Inv /\ Inv' /\ HistoryInv /\ [Next]_vars => HistoryInv'
  <1> SUFFICES ASSUME Inv, Inv', HistoryInv, [Next]_vars PROVE HistoryInv'
    OBVIOUS
  <1>1. ids \subseteq TimerId
    BY DEF Inv, TypeOK
  <1>2. CASE PollTimerfd \/ TimerReturns \/ Tick \/ UNCHANGED vars
    BY <1>2, IdleRemembered
      DEF PollTimerfd, TimerReturns, Tick, vars, batch, sets, objects, history
  <1>3. CASE HandleRead
    BY <1>3, ExpireRemembered
  <1>4. CASE RunTimer
    BY <1>4, RunRemembered
  <1>5. CASE EndHandleRead
    BY <1>5, ResetRemembered
  <1>6. CASE RunPending
    <2> DEFINE call == Head(pending)
    <2>1. UNCHANGED <<expired, todo>>
      BY <1>6 DEF RunPending, batch
    <2>2. ASSUME AddTimerInLoop(call.id[1], heap[call.id[1]].sequence,
                                heap[call.id[1]].expiration),
                 UNCHANGED <<objects, history>>
          PROVE  HistoryInv'
      BY <2>1, <2>2, IdleRemembered DEF AddTimerInLoop, objects, history
    <2>3. ASSUME CancelInLoop(call.id) PROVE HistoryInv'
      <3>1. call \in Call
        BY <1>6, InvParts, Owners, TakeCall DEF RunPending, TypeOK, Call
      <3>2. call.id \in TimerId
        BY <3>1 DEF Call
      <3>3. QED
        BY <2>1, <2>3, <3>2, CancelRemembered
    <2>4. QED
      BY <1>6, <2>2, <2>3 DEF RunPending
  <1>7. ASSUME NEW id \in ids, Cancel(id) PROVE HistoryInv'
    <2>1. CancelInLoop(id) /\ UNCHANGED <<expired, todo>> /\ id \in TimerId
      BY <1>1, <1>7 DEF Cancel, batch
    <2>2. QED
      BY <2>1, CancelRemembered
  <1>8. ASSUME NEW id \in ids, NEW c \in Callers, CallCancel(c, id) PROVE HistoryInv'
    BY <1>8, IdleRemembered DEF CallCancel, batch, sets, objects, history
  <1>9. ASSUME NEW a \in Addrs, NEW when \in Whens, NEW interval \in Intervals,
               AddTimer(a, when, interval)
        PROVE  HistoryInv'
    <2>1. /\ NewTimer(a, when, interval)
          /\ UNCHANGED <<expired, todo, cancelingTimers, done, cancelled>>
      BY <1>9 DEF AddTimer, AddTimerInLoop, batch, history
    <2>2. QED
      BY <2>1, NewRemembered
  <1>10. ASSUME NEW c \in Callers, NEW a \in Addrs, NEW when \in Whens,
                NEW interval \in Intervals, CallAddTimer(c, a, when, interval)
         PROVE  HistoryInv'
    <2>1. /\ NewTimer(a, when, interval)
          /\ UNCHANGED <<expired, todo, cancelingTimers, done, cancelled>>
      BY <1>10 DEF CallAddTimer, batch, sets, history
    <2>2. QED
      BY <2>1, NewRemembered
  <1>11. ASSUME NEW c \in Callers, CallAddTimerReturns(c) PROVE HistoryInv'
    BY <1>11, IdleRemembered DEF CallAddTimerReturns, batch, sets, history
  <1>12. QED
    BY <1>2, <1>3, <1>4, <1>5, <1>6, <1>7, <1>8, <1>9, <1>10, <1>11
      DEF Next, HandleStep

LEMMA HistoryInvariance == Spec => [](Inv /\ HistoryInv)
  <1>1. Init => HistoryInv
    <2> SUFFICES ASSUME Init PROVE HistoryInv
      OBVIOUS
    <2>1. Allocated = {} /\ expired = {} /\ InBatch = {}
      BY DEF Init, Allocated, NoTimer, InBatch
    <2>2. 1 .. numCreated = {} /\ done = {} /\ cancelled = {}
      BY DEF Init
    <2>3. QED
      BY <2>1, <2>2 DEF HistoryInv, Numbered, Remembered, NoTimerLost
  <1>2. QED
    BY <1>1, Invariance, HistoryNext, PTL DEF Spec

-----------------------------------------------------------------------------
(* Theorems.                                                               *)

(***************************************************************************)
(* Every variable of the TimerQueue has its type.  The sequence numbers of *)
(* timers that ran or were cancelled are those of allocated Timers, which  *)
(* needs the owners.                                                       *)
(***************************************************************************)
THEOREM TimerTypeCorrect == Spec => []TypeOK
  BY Invariance, PTL DEF Inv

(***************************************************************************)
(* timers_ and activeTimers_ always hold the same Timers: the assertions   *)
(* of TimerQueue.cc on the sizes of the sets and on what erase() finds     *)
(* cannot fail, however adding, cancelling and expiring are interleaved.   *)
(***************************************************************************)
THEOREM TimerSetsAgree == Spec => []SetsAgree
  BY Invariance, PTL DEF Inv

(***************************************************************************)
(* Every Timer has one owner, so delete is called once for each and never  *)
(* on one that is queued, in the batch or on its way to the loop thread.   *)
(***************************************************************************)
THEOREM TimerOneOwner == Spec => []OneOwner
  BY Invariance, PTL DEF Inv

(***************************************************************************)
(* The alarm is never late, for any timers added, restarted and cancelled  *)
(* in any order by the loop's callbacks and by other threads: whenever a   *)
(* timer is queued outside handleRead(), the timerfd has expired or will   *)
(* by the first expiration.  This is what addTimerInLoop() setting the     *)
(* timerfd only for a new first timer rests on.                            *)
(***************************************************************************)
THEOREM TimerAlarmInTime == Spec => []AlarmInTime
  <1>1. Init => AlarmInv
    BY DEF Init, AlarmInv
  <1>2. QED
    BY <1>1, Invariance, AlarmNext, AlarmImplied, PTL DEF Spec

(***************************************************************************)
(* No timer is lost: whatever is added, cancelled (also by a TimerId whose *)
(* Timer is gone and whose address was used again) and restarted, a timer  *)
(* that was not cancelled still exists, or does not repeat and has run.    *)
(***************************************************************************)
THEOREM TimerNotLost == Spec => []NoTimerLost
  BY HistoryInvariance, PTL DEF HistoryInv

(***************************************************************************)
(* A timer that was cancelled is not queued again, also when its own       *)
(* callback or another of the same batch cancelled it; nor is a timer that *)
(* does not repeat and has run.                                            *)
(***************************************************************************)
THEOREM TimerNeverAgain == Spec => []NeverAgain
  <1>1. Inv /\ HistoryInv => NeverAgain
    BY HistoryFacts DEF HistoryInv, Remembered, NeverAgain
  <1>2. QED
    BY <1>1, HistoryInvariance, PTL
=============================================================================
