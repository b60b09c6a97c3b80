--------------------------- MODULE MCRegistration ---------------------------
(* Instances of Registration for TLC: an owner alone, an owner and the     *)
(* agent it registers, an agent beside a loopback client that rotates the  *)
(* token from two tasks, and an agent that fetches an attachment.          *)
EXTENDS Registration

CONSTANTS p1, agent, guest1, guest2, fetcher, home, vm

OneProfile == {p1}
SetUp == INSTANCE OwnerCommands

Adapter == SetUp!Command("savePythonAdapterConfiguration")
LargeOnes == {Adapter}

NativeOn ==
  SetUp!SetRichMessagingConfiguration(
    [provider |-> "nativeAccessibility", enabled |-> TRUE, nativeEnabled |-> None])
Create == SetUp!CreateConnection(p1, TRUE)
Enable == SetUp!UpdateConnection(p1, TRUE)
Disable == SetUp!UpdateConnection(p1, FALSE)
Remove == SetUp!RemoveConnection(p1)
Retain5 == SetUp!SetActivityRetention(5)
MCCommands == {Adapter, NativeOn, Create, Enable, Disable, Remove, Retain5}

MCCallers == {agent, guest1, guest2, fetcher}
MCClients == {home, vm}
MCClientOf == [t \in MCCallers |-> IF t \in {guest1, guest2} THEN vm ELSE home]
FromFile == {home}
MCProfileOf == [c \in MCClients |-> IF c = home THEN p1 ELSE None]
MCCallsOf ==
  [t \in MCCallers |-> CASE t = agent -> {"health"}
                         [] t = fetcher -> {"fetchAttachment"}
                         [] OTHER -> {"rotateAuthToken"}]
MCContents == {<<1, "a">>, <<1, "b">>, <<2, "c">>}

Cast(s, cs, ts) == [sdk |-> s, commands |-> cs, callers |-> ts]
MCCasts ==
  {Cast("python", {Adapter, NativeOn, Disable, Remove, Retain5}, {}),
   Cast("typescript", {Adapter, Enable, Disable}, {}),
   Cast("typescript", {Create, Disable}, {agent}),
   Cast("python", {}, {agent, guest1}),
   Cast("python", {}, {guest1, guest2}),
   Cast("python", {}, {fetcher})}
=============================================================================
