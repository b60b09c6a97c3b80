------------------------------ MODULE Content -------------------------------
(***************************************************************************)
(* What may be sent, and the capability gate before it: the content        *)
(* constructors and send_ helpers of the Python client, the feature each   *)
(* kind of content needs and the decision of _check_supported().  Pure     *)
(* data; the TypeScript client has the same but for one feature.           *)
(*                                                                         *)
(* A content is its kind and, for unsupported content, the feature named;  *)
(* what its payload says is left out.                                      *)
(***************************************************************************)
CONSTANT None

ContentKinds ==
  {"attachment", "edit", "messageEffect", "reaction", "reply", "richLink", "text",
   "typing", "unsend", "unsupported"}

Features ==
  {"applePayBusinessAction", "inboundAttachment", "inboundEdit", "inboundReaction",
   "inboundReplyReference", "inboundText", "inboundUnsend", "miniAppCard", "sendEdit",
   "sendFile", "sendMessageEffect", "sendReaction", "sendRichLink", "sendText",
   "sendThreadedReply", "sendTypingIndicator", "sendUnsend"}

Supports ==
  {"blocked", "degraded", "providerOnly", "receiveOnly", "researchGated", "supported",
   "unsupported"}

ContentOf(k) == [kind |-> k, names |-> None]

TextContent == ContentOf("text")
RichLinkContent == ContentOf("richLink")
AttachmentContent == ContentOf("attachment")
ReactionContent == ContentOf("reaction")
ReplyContent == ContentOf("reply")
EditContent == ContentOf("edit")
UnsendContent == ContentOf("unsend")
MessageEffectContent == ContentOf("messageEffect")
TypingContent == ContentOf("typing")

(* Content a caller builds by itself for a feature no helper sends, or     *)
(* leaves without the feature.                                             *)
UnsupportedContent == [kind : {"unsupported"}, names : Features \cup {None}]

(* What the send_ helpers hand to send_content(); send_file() and          *)
(* send_attachment() both send an attachment.                              *)
HelperContents ==
  {TextContent, RichLinkContent, AttachmentContent, ReactionContent, ReplyContent,
   EditContent, UnsendContent, MessageEffectContent, TypingContent}

FeatureTable ==
  [text |-> "sendText", attachment |-> "sendFile", richLink |-> "sendRichLink",
   reaction |-> "sendReaction", reply |-> "sendThreadedReply", edit |-> "sendEdit",
   unsend |-> "sendUnsend", typing |-> "sendTypingIndicator",
   messageEffect |-> "sendMessageEffect"]

(* Unsupported content that names no feature is a KeyError in Python, None *)
(* here, and passes for text in TypeScript.                                *)
FeatureFor(sdk, c) ==
  IF c.kind # "unsupported" THEN FeatureTable[c.kind]
  ELSE IF c.names = None /\ sdk = "typescript" THEN "sendText" ELSE c.names

(* A matrix gives the support of each feature by the local transport, None *)
(* where it has no entry.  The gate lets "blocked", "degraded" and         *)
(* "receiveOnly" pass: what it lets pass is left to the service, which     *)
(* enforces its current matrix by itself.                                  *)
Gated == {"unsupported", "researchGated", "providerOnly", None}

GateRejects(sdk, matrix, c) ==
  FeatureFor(sdk, c) # None /\ matrix[FeatureFor(sdk, c)] \in Gated

(* The service's reading of a kind, by its feature ids                     *)
(* (docs/local-protocol.md:125 and 142).                                   *)
Serves(f, k) == <<f, k>> \in
  {<<"sendText", "text">>, <<"sendFile", "attachment">>, <<"sendRichLink", "richLink">>,
   <<"sendReaction", "reaction">>, <<"sendMessageEffect", "messageEffect">>,
   <<"sendThreadedReply", "reply">>, <<"sendEdit", "edit">>, <<"sendUnsend", "unsend">>,
   <<"sendTypingIndicator", "typing">>}

(* What the service may still carry out (docs/sdk-python.md:193): what it  *)
(* reports as supported, perhaps what it reports as degraded.              *)
Performs(matrix, c) ==
  \E f \in Features : Serves(f, c.kind) /\ matrix[f] \in {"supported", "degraded"}
=============================================================================
