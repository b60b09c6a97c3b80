--------------------------- MODULE MCManagedTyping --------------------------
(* Instances of ManagedTyping for TLC: a matrix supports everything, or    *)
(* has one feature of a reply, or typing, at another level.  Threaded      *)
(* replies go through every level there is.                                *)
EXTENDS ManagedTyping

BothSDKs == {"python", "typescript"}

Lowered(f, level) == [g \in Features |-> IF g = f THEN level ELSE "supported"]

MCMatrices ==
  {Lowered("sendThreadedReply", l) : l \in Supports \cup {None}}
    \cup {Lowered("sendTypingIndicator", l) : l \in {"researchGated", "degraded", None}}
    \cup {Lowered("sendFile", "unsupported")}

MCReplies == {ReplyContent, AttachmentContent, [kind |-> "unsupported", names |-> None]}
=============================================================================
