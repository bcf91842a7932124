------------------------ MODULE WindowPromiseProofs ------------------------
(***************************************************************************)
(* What the promise of WindowPromise comes to, for any events, windows and *)
(* assignment of the ones to the others.                                   *)
(***************************************************************************)
EXTENDS WindowPromise, TLAPS

\* What was acknowledged is held until its window is settled, and held or published
\* for good: the promise is strong enough for the engine to ack upstream (Run).
THEOREM PromiseLosesNothing == Spec => []NothingLost
  <1>1. Init => NothingLost
    BY DEF Init, NothingLost
  <1>2. ASSUME NothingLost, [Next]_vars PROVE NothingLost'
    <2>1. ASSUME NEW e \in Event, Record(e) PROVE NothingLost'
      BY <1>2, <2>1 DEF Record, NothingLost
    <2>2. ASSUME NEW e \in Event, Ack(e) PROVE NothingLost'
      BY <1>2, <2>2 DEF Ack, NothingLost
    <2>3. ASSUME NEW k \in Key, Publish(k) PROVE NothingLost'
      BY <1>2, <2>3 DEF Publish, NothingLost
    <2>4. ASSUME NEW k \in Key, Forget(k) PROVE NothingLost'
      BY <1>2, <2>4 DEF Forget, Members, NothingLost
    <2>5. CASE Settle
      BY <1>2, <2>5 DEF Settle, NothingLost
    <2>6. CASE UNCHANGED vars
      BY <1>2, <2>6 DEF vars, NothingLost
    <2>7. QED
      BY <1>2, <2>1, <2>2, <2>3, <2>4, <2>5, <2>6 DEF Next
  <1>3. QED
    BY <1>1, <1>2, PTL DEF Spec

=============================================================================
