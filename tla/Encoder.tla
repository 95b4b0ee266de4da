------------------------------- MODULE Encoder -------------------------------
(* What an encoder of sofab.hpp promises, with no buffer in sight: a message   *)
(* that grows by whole fields, the sequence headers it is still holding back,  *)
(* the nesting depth, and a verdict that is latched once.  OStream.tla is      *)
(* shown to implement it, whatever buffers it is given and however its sink    *)
(* behaves.                                                                    *)
(*                                                                             *)
(* As long as the verdict is "None" the message is a function of the accepted  *)
(* calls alone (README.md:552-583, "a tiny output buffer yields byte-identical *)
(* output").  When the stream is condemned the message may lose a tail, never  *)
(* anything before it; a stream condemned by an overflow is frozen from then   *)
(* on unless the application reopens it with a new buffer.                     *)
EXTENDS MessageWire

\* s is an initial part of t.
Begins(s, t) == Len(s) <= Len(t) /\ s = SubSeq(t, 1, Len(s))

------------------------------------------------------------------------------
VARIABLES
    msg,        \* the bytes of the message, in order
    held,       \* ids of the innermost open sequences with nothing in them yet
    depth,      \* open sequences
    verdict,    \* the first failure
    reopened    \* a buffer was installed after the stream was condemned

vars == <<msg, held, depth, verdict, reopened>>

Init ==
    /\ msg = <<>> /\ held = <<>> /\ depth = 0
    /\ verdict \in {"None", "InvalidArgument"} /\ reopened = FALSE

Healthy == verdict = "None"

\* A field brings every header held back so far onto the wire before it.
Write(f) ==
    /\ Healthy
    /\ msg' = msg \o Headers(held) \o Wire[f]
    /\ held' = <<>>
    /\ UNCHANGED <<depth, verdict, reopened>>

Begin(id) ==
    /\ Healthy /\ depth < MAX_DEPTH
    /\ held' = Append(held, id)
    /\ depth' = depth + 1
    /\ UNCHANGED <<msg, verdict, reopened>>

\* The dropping closer: a sequence that received nothing leaves no trace.
EndDrop ==
    /\ Healthy /\ depth > 0
    /\ depth' = depth - 1
    /\ \/ /\ held # <<>>
          /\ held' = SubSeq(held, 1, Len(held) - 1)
          /\ msg' = msg
       \/ /\ held = <<>>
          /\ held' = held
          /\ msg' = msg \o EndMarker
    /\ UNCHANGED <<verdict, reopened>>

\* The keeping closer: the frame is written even when it is empty.
EndKeep ==
    /\ Healthy /\ depth > 0
    /\ depth' = depth - 1
    /\ msg' = msg \o Headers(held) \o EndMarker
    /\ held' = <<>>
    /\ UNCHANGED <<verdict, reopened>>

\* The stream is condemned: at most a tail of the message is lost.
Condemn ==
    /\ Healthy
    /\ verdict' \in Errors \ {"None"}
    /\ Begins(msg', msg)
    /\ held' \in {held, <<>>}
    /\ UNCHANGED <<depth, reopened>>

\* After that the verdict never changes and what was written stays written.  What
\* is held back, and how deep the stream thinks it is, is promised no more.
Condemned ==
    /\ ~Healthy
    /\ verdict' = verdict
    /\ reopened => reopened'
    /\ Begins(msg, msg')
    /\ verdict = "BufferFull" /\ ~reopened => msg' = msg

Next ==
    \/ \E f \in Fields : Write(f)
    \/ \E id \in Ids : Begin(id)
    \/ EndDrop
    \/ EndKeep
    \/ Condemn
    \/ Condemned

Spec == Init /\ [][Next]_vars
==============================================================================
