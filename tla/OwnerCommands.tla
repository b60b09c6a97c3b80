--------------------------- MODULE OwnerCommands ----------------------------
(***************************************************************************)
(* The commands of the local owner, as the methods of                      *)
(* SiriusMsgAgentControlClient build them.  Pure data: of the payloads, the*)
(* connection, whether it is enabled, the rich messaging configuration and *)
(* the retention are kept.                                                 *)
(***************************************************************************)
EXTENDS Naturals

CONSTANT None

(* The methods whose answer must carry something.                          *)
NeedsPayload == {"readConfiguration", "createConnection", "listChats"}
Methods ==
  NeedsPayload \cup
  {"readActivity", "updateConnection", "removeConnection", "setRichMessagingConfiguration",
   "savePythonAdapterConfiguration", "setVMAccessEnabled", "setActivityRetention",
   "clearAdapterReview"}

Command(method) ==
  [command |-> method, profile |-> None, enabled |-> FALSE, rich |-> None, days |-> 0]

CreateConnection(p, on) == [Command("createConnection") EXCEPT !.profile = p, !.enabled = on]
UpdateConnection(p, on) == [Command("updateConnection") EXCEPT !.profile = p, !.enabled = on]
RemoveConnection(p) == [Command("removeConnection") EXCEPT !.profile = p]
SetActivityRetention(d) == [Command("setActivityRetention") EXCEPT !.days = d]

Providers == {"imsg", "nativeAccessibility"}
RichConfigurations ==
  [provider : Providers, enabled : BOOLEAN, nativeEnabled : BOOLEAN \cup {None}]

(* The native provider is enabled by a flag of its own.                    *)
RichRequest(c) ==
  IF c.provider = "nativeAccessibility"
  THEN [c EXCEPT !.nativeEnabled = IF @ # None THEN @ ELSE c.enabled, !.enabled = FALSE]
  ELSE c

SetRichMessagingConfiguration(c) ==
  [Command("setRichMessagingConfiguration") EXCEPT !.rich = RichRequest(c)]

BadRetention(c) == c.command = "setActivityRetention" /\ c.days \notin {0, 7, 30, 90}

CommandsOn(profiles) ==
  [command : Methods, profile : profiles \cup {None}, enabled : BOOLEAN,
   rich : {RichRequest(c) : c \in RichConfigurations} \cup {None}, days : Nat]
=============================================================================
