-------------------------- MODULE DurableTorrents --------------------------
(***************************************************************************)
(* What the engine's callers may count on of the saved torrents: a set     *)
(* that each call changes once, at one moment between its beginning and    *)
(* its return, that nothing else changes, and that the end of the process  *)
(* leaves alone.  A new process takes over every saved torrent before it   *)
(* lets anybody call, and drops only a file it cannot load.                *)
(* Of a torrent in Unstored the medium may fail to keep a change, or to    *)
(* give it back: then nobody is told.                                      *)
(* TorrentLifecycle.tla is the detailed specification shown to implement   *)
(* this one.                                                               *)
(***************************************************************************)

CONSTANTS Torrents,
          Magnets,   \* torrents that need no file
          Callers,   \* threads that call add_torrent and remove_torrent
          Unstored   \* torrents that may not be kept

VARIABLES saved,     \* the set of torrents
          booting,   \* those a new process has not taken over yet
          call       \* [Callers -> the call in progress]

vars == <<saved, booting, call>>

NoCall == [kind |-> "none"]
Call(kind, t) == [kind |-> kind, t |-> t]

Init == saved = {} /\ booting = {} /\ call = [c \in Callers |-> NoCall]

Change(t, new) == saved' = new \/ (t \in Unstored /\ UNCHANGED saved)

Begin(c, kind, t) == /\ booting = {}
                     /\ call[c] = NoCall
                     /\ call' = [call EXCEPT ![c] = Call(kind, t)]
                     /\ UNCHANGED <<saved, booting>>

\* The set changes as the call returns ...
AddReturns(c, t) == /\ call[c] = Call("add", t)
                    /\ Change(t, saved \cup {t})
                    /\ call' = [call EXCEPT ![c] = NoCall]
                    /\ UNCHANGED booting

\* ... or before that.
Forget(c, t) == /\ call[c] = Call("remove", t)
                /\ Change(t, saved \ {t})
                /\ call' = [call EXCEPT ![c] = Call("removed", t)]
                /\ UNCHANGED booting

RemoveReturns(c, t) == /\ call[c] = Call("removed", t)
                       /\ call' = [call EXCEPT ![c] = NoCall]
                       /\ UNCHANGED <<saved, booting>>

Restart == /\ call' = [c \in Callers |-> NoCall]
           /\ booting' \in {saved \ lost : lost \in SUBSET Unstored}
           /\ UNCHANGED saved

TakeOver(t) == /\ t \in booting
               /\ booting' = booting \ {t}
               /\ UNCHANGED <<saved, call>>

Drop(t) == /\ t \in booting \ Magnets
           /\ booting' = booting \ {t}
           /\ Change(t, saved \ {t})
           /\ UNCHANGED call

Next == \/ \E t \in Torrents :
              \/ \E c \in Callers :
                    \/ Begin(c, "add", t) \/ AddReturns(c, t)
                    \/ Begin(c, "remove", t) \/ Forget(c, t) \/ RemoveReturns(c, t)
              \/ TakeOver(t) \/ Drop(t)
        \/ Restart

Spec == Init /\ [][Next]_vars
=============================================================================
