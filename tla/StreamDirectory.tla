-------------------------- MODULE StreamDirectory --------------------------
(***************************************************************************)
(* What the application and the player may count on of the streams: each   *)
(* torrent offers one stream at a time, of the file that was chosen last   *)
(* when it was put up; the old stream is withdrawn before the new one is   *)
(* offered, a stream ends only when nobody can find it any more, is not    *)
(* offered again after that, and goes away only when it has ended.         *)
(* FileSelection.tla is the detailed specification shown to implement      *)
(* this one.                                                               *)
(***************************************************************************)

CONSTANTS Torrents, Files, Streams, None

VARIABLES chosen,    \* [Torrents -> the chosen file or None]
          offered,   \* [Torrents -> the streams on offer, each with its file]
          ended,     \* streams whose readers are told to stop
          gone       \* streams whose state is destroyed

vars == <<chosen, offered, ended, gone>>

Init == /\ chosen = [t \in Torrents |-> None]
        /\ offered = [t \in Torrents |-> {}]
        /\ ended = {} /\ gone = {}

\* The old stream stays on offer.
Choose(t, f) == /\ chosen' = [chosen EXCEPT ![t] = f]
                /\ UNCHANGED <<offered, ended, gone>>

Withdraw(t) == /\ offered' = [offered EXCEPT ![t] = {}]
               /\ UNCHANGED <<chosen, ended, gone>>

Offer(t, s) == /\ chosen[t] # None
               /\ offered[t] = {}
               /\ s \notin ended
               /\ offered' = [offered EXCEPT ![t] = {<<chosen[t], s>>}]
               /\ UNCHANGED <<chosen, ended, gone>>

Forget(t) == /\ offered[t] = {}
             /\ chosen' = [chosen EXCEPT ![t] = None]
             /\ UNCHANGED <<offered, ended, gone>>

End(s) == /\ \A t \in Torrents, f \in Files : <<f, s>> \notin offered[t]
          /\ ended' = ended \cup {s}
          /\ UNCHANGED <<chosen, offered, gone>>

Discard(s) == /\ s \in ended
              /\ gone' = gone \cup {s}
              /\ UNCHANGED <<chosen, offered, ended>>

Next == \/ \E t \in Torrents :
              \/ \E f \in Files : Choose(t, f)
              \/ Withdraw(t) \/ Forget(t)
              \/ \E s \in Streams : Offer(t, s)
        \/ \E s \in Streams : End(s) \/ Discard(s)

Spec == Init /\ [][Next]_vars
=============================================================================
