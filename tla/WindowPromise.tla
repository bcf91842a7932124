--------------------------- MODULE WindowPromise ---------------------------
(***************************************************************************)
(* What a window Manager with a store promises to the engine that feeds it *)
(* and reads its batches, whatever process it runs in: Tumbling implements *)
(* it.  There is no process here, no clock and no memory; a crash and a    *)
(* restart are steps that change nothing.                                  *)
(***************************************************************************)
CONSTANTS
  Event,      \* the events, each receipt one of its own
  Key,        \* the windows
  WindowOf    \* the window of each event

VARIABLES
  held,       \* events that a new process would find
  published,  \* events that were part of a batch
  acked,      \* events that were acknowledged
  settled     \* windows whose correction horizon has passed

vars == <<held, published, acked, settled>>

Members(k) == {e \in Event : WindowOf[e] = k}

\* The clock may stand anywhere when the first process starts.
Init ==
  /\ held = {} /\ published = {} /\ acked = {}
  /\ settled \in SUBSET Key

Record(e) ==
  /\ e \notin acked
  /\ held' = held \cup {e}
  /\ UNCHANGED <<published, acked, settled>>

\* A batch, the first of its window or a later one.  Until the window is settled it
\* holds whatever was acknowledged.
Publish(k) ==
  \E batch \in SUBSET (held \cap Members(k)) :
    /\ k \in settled \/ acked \cap Members(k) \subseteq batch
    /\ published' = published \cup batch
    /\ UNCHANGED <<held, acked, settled>>

Ack(e) ==
  /\ e \in held
  /\ acked' = acked \cup {e}
  /\ UNCHANGED <<held, published, settled>>

Settle ==
  /\ settled' \in SUBSET Key
  /\ settled \subseteq settled'
  /\ UNCHANGED <<held, published, acked>>

\* Only a settled window is forgotten, and only with nothing owed to it.
Forget(k) ==
  /\ k \in settled
  /\ acked \cap Members(k) \subseteq published
  /\ held' = held \ Members(k)
  /\ UNCHANGED <<published, acked, settled>>

Next ==
  \/ \E e \in Event : Record(e) \/ Ack(e)
  \/ \E k \in Key : Publish(k) \/ Forget(k)
  \/ Settle

Spec == Init /\ [][Next]_vars

\* The promise, in short: what was acknowledged is held until its window is settled,
\* and is held or published for good.
NothingLost ==
  \A e \in acked :
    /\ e \in held \/ e \in published
    /\ e \in held \/ WindowOf[e] \in settled
=============================================================================
