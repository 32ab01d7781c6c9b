--------------------------- MODULE CaptureService ---------------------------
(***************************************************************************)
(* The running program: the session tasks of NetherSession saving into the *)
(* directory of CaptureStore.  save_login_capture is called without an     *)
(* await, so the session stands still until it returns, but other sessions *)
(* run on other threads meanwhile.  Each session saves at most one capture *)
(* and is its own worker and capture in the store.                         *)
(***************************************************************************)
EXTENDS NetherSession

CONSTANTS BaseName, SaveModes, OldPng, OldJson, Foreign, MaxCount, DiskMayFail, MaxCrashes

(* What CaptureStore assumes of its constants.                              *)
ASSUME StoreAssumption ==
    /\ BaseName \in [Sessions -> Seq(Nat)]
    /\ OldPng \subseteq Seq(Nat) /\ OldJson \subseteq Seq(Nat)
    /\ Sessions # {} /\ Foreign \notin Sessions
    /\ SaveModes \subseteq 0..255 /\ MaxCount \in Nat \ {0}
    /\ DiskMayFail \in BOOLEAN /\ MaxCrashes \in Nat

VARIABLES savemode, png, json, savePc, saveCap, count, verdict, path, crashes

storeVars == <<savemode, png, json, savePc, saveCap, count, verdict, path, crashes>>

Store == INSTANCE CaptureStore
           WITH Workers <- Sessions, Captures <- Sessions, pc <- savePc, cap <- saveCap

ServiceInit == Init /\ Store!Init

(* The Login that parsed is handed to save_login_capture.                   *)
LoginStartsSave(s) ==
    /\ Login(s) /\ pc'[s] = "saving"
    /\ Store!BeginSave(s, s) \/ Store!SkipSave(s, s)

SaveStep(s) == Store!Step(s) /\ UNCHANGED vars

SaveDoneEarly(s) ==            \* mutant: the task does not wait for the save
    SaveReturned(s) /\ UNCHANGED storeVars

SaveDoneIfSaved(s) ==          \* mutant: a save that wrote nothing never returns
    verdict[s] = "saved" /\ SaveReturned(s) /\ UNCHANGED storeVars

SaveDone(s) ==
    /\ savePc[s] = "idle" /\ SaveReturned(s)
    /\ UNCHANGED storeVars

(* Everything else a session or its client does leaves the files alone.     *)
NoSave(s) ==
    /\ \/ RecvReliable(s) \/ \E b \in Batches : RecvUnreliable(s, b)
       \/ \E ch \in Channels : ChannelClosed(s, ch)
       \/ IgnorePacket(s) \/ RequestNetworkSettings(s) \/ SendSettings(s)
       \/ Login(s) /\ pc'[s] # "saving"
       \/ SendBundle(s) \/ SleepOver(s) \/ Close(s)
    /\ UNCHANGED storeVars

TaskStep(s) == LoginStartsSave(s) \/ SaveStep(s) \/ SaveDone(s) \/ NoSave(s)

ServiceNext == \E s \in Sessions :
                  TaskStep(s) \/ ((RecvError(s) \/ Client(s)) /\ UNCHANGED storeVars)

ServiceSpec ==
    /\ ServiceInit /\ [][ServiceNext]_<<vars, storeVars>>
    /\ \A s \in Sessions : WF_<<vars, storeVars>>(TaskStep(s))

(***************************************************************************)
(* Properties                                                              *)
(***************************************************************************)

(* A client is told "Skin captured" only when its save has come to an end,  *)
(* and a session that is answered or closed leaves no save behind.          *)
ToldWhenSettled ==
    \A s \in Sessions :
        (pc[s] # "saving" \/ \E r \in Sent(s) : r.kind = "Bundle") =>
            savePc[s] = "idle" /\ verdict[s] # "running"

(* The data flow of the README: a Login that parsed ends up as an image of  *)
(* its own in the directory (numbered), with the session closed, unless the  *)
(* disk fails.                                                              *)
LoginBecomesFile ==
    \A s \in Sessions :
        pc[s] = "saving" /\ savemode = 2 ~> pc[s] = "closed" /\ \E f \in DOMAIN png : png[f] = {s}

(* The sessions, whose save takes many steps here, are those of             *)
(* NetherSession, with its fairness.                                        *)
ImplementsSessions == Spec
=============================================================================
