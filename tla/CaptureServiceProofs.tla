------------------------ MODULE CaptureServiceProofs ------------------------
(***************************************************************************)
(* Proofs about CaptureService, for any sessions, batches and names: its   *)
(* sessions are those of NetherSession and its directory that of           *)
(* CaptureStore, so that what is proved of either holds of both together;  *)
(* and nobody is told of a capture that is still being saved.              *)
(***************************************************************************)
EXTENDS CaptureService, NetherSessionProofs

(***************************************************************************)
(* The two systems inside                                                  *)
(***************************************************************************)

(* Every step of the service is a step of one session and its client, or    *)
(* leaves them as they are.                                                 *)
LEMMA ServiceToSession == [ServiceNext]_<<vars, storeVars>> => [Next]_vars
<1> SUFFICES ASSUME [ServiceNext]_<<vars, storeVars>> PROVE [Next]_vars
  OBVIOUS
<1>1. ASSUME NEW s \in Sessions, LoginStartsSave(s) \/ SaveDone(s) \/ NoSave(s) PROVE Next
  <2>1. ServerStep(s)
    BY <1>1 DEF LoginStartsSave, SaveDone, NoSave, ServerStep, HandlePacket
  <2> QED
    BY <2>1 DEF Next
<1>2. ASSUME NEW s \in Sessions, SaveStep(s) PROVE UNCHANGED vars
  BY <1>2 DEF SaveStep
<1>3. ASSUME NEW s \in Sessions, RecvError(s) \/ Client(s) PROVE Next
  BY <1>3 DEF Next
<1> QED
  BY <1>1, <1>2, <1>3 DEF ServiceNext, TaskStep

(* Every step of the service is a step of the directory, or leaves it as it *)
(* is.                                                                      *)
LEMMA ServiceToStore == [ServiceNext]_<<vars, storeVars>> => [Store!Next]_storeVars
<1> SUFFICES ASSUME [ServiceNext]_<<vars, storeVars>> PROVE [Store!Next]_storeVars
  OBVIOUS
<1>1. ASSUME NEW s \in Sessions, LoginStartsSave(s) PROVE Store!Next
  BY <1>1 DEF LoginStartsSave, Store!Next
<1>2. ASSUME NEW s \in Sessions, SaveStep(s) PROVE Store!Next
  BY <1>2 DEF SaveStep, Store!Next
<1>3. ASSUME NEW s \in Sessions, SaveDone(s) \/ NoSave(s) PROVE UNCHANGED storeVars
  BY <1>3 DEF SaveDone, NoSave
<1> QED
  BY <1>1, <1>2, <1>3 DEF ServiceNext, TaskStep

(* The service is NetherSession, whose save takes many steps, but for the   *)
(* fairness (handle_session calls save_login_capture without an await).     *)
THEOREM ServiceKeepsSessions == ServiceSpec => Init /\ [][Next]_vars
<1>1. ServiceInit => Init
  BY DEF ServiceInit
<1> QED
  BY <1>1, ServiceToSession, PTL DEF ServiceSpec

(* The service is CaptureStore with a thread and a capture for each         *)
(* session, but for the fairness.                                           *)
THEOREM ServiceKeepsStore == ServiceSpec => Store!Init /\ [][Store!Next]_storeVars
<1>1. ServiceInit => Store!Init
  BY DEF ServiceInit
<1> QED
  BY <1>1, ServiceToStore, PTL DEF ServiceSpec

(* What is proved of a session holds of the sessions of the service.        *)
THEOREM SessionsStayInOrder ==
    ServiceSpec => [](ConformingClientIsHeard /\ ClientCanDecode /\ BundleIsLast)
<1>1. Init /\ [][Next]_vars => []SessionInv
  BY SessionInit, SessionStep, PTL
<1>2. SessionInv => ConformingClientIsHeard /\ ClientCanDecode /\ BundleIsLast
  BY SessionMeans
<1> QED
  BY <1>1, <1>2, ServiceKeepsSessions, PTL

(***************************************************************************)
(* What is proved of the directory                                         *)
(***************************************************************************)
StoreSays == INSTANCE CaptureStoreProofs
               WITH Workers <- Sessions, Captures <- Sessions, pc <- savePc, cap <- saveCap

(* The constants of the service are such as the proofs take.                *)
LEMMA StoreConstants ==
    /\ StoreSays!BaseNameAssumption /\ StoreSays!OldFilesAssumption
    /\ StoreSays!CapturesAssumption /\ StoreSays!CounterAssumption /\ StoreSays!FaultAssumption
BY StoreAssumption
   DEF StoreSays!BaseNameAssumption, StoreSays!OldFilesAssumption, StoreSays!CapturesAssumption,
       StoreSays!CounterAssumption, StoreSays!FaultAssumption

(* Its directory starts as the one the proofs are about.                    *)
LEMMA StoreStarts == Store!Init => StoreSays!Init
BY DEF Store!Init, StoreSays!Init

(* It goes on as that one, action by action.                                *)
LEMMA StoreGoesOn == [Store!Next]_storeVars => [StoreSays!Next]_StoreSays!vars
<1>1. ASSUME NEW w \in Sessions, NEW c \in Sessions, Store!SkipSave(w, c) \/ Store!BeginSave(w, c)
      PROVE  StoreSays!SkipSave(w, c) \/ StoreSays!BeginSave(w, c)
  BY <1>1
  DEF Store!SkipSave, Store!BeginSave, Store!Goto,
      StoreSays!SkipSave, StoreSays!BeginSave, StoreSays!Goto
<1>2. ASSUME NEW w \in Sessions, Store!Step(w) PROVE StoreSays!Step(w)
  BY <1>2
  DEF Store!Step, Store!ProbePng, Store!ProbeJson, Store!CreatePng, Store!WritePng,
      Store!CreateJson, Store!WriteJson, Store!Goto, Store!Finish, Store!PngExists,
      Store!JsonExists, Store!NextCandidate, Store!Target, Store!Stem, Store!Put,
      Store!Overlays, Store!SidecarFails,
      StoreSays!Step, StoreSays!ProbePng, StoreSays!ProbeJson, StoreSays!CreatePng,
      StoreSays!WritePng, StoreSays!CreateJson, StoreSays!WriteJson, StoreSays!Goto,
      StoreSays!Finish, StoreSays!PngExists, StoreSays!JsonExists, StoreSays!NextCandidate,
      StoreSays!Target, StoreSays!Stem, StoreSays!Put, StoreSays!Overlays,
      StoreSays!SidecarFails
<1>3. ASSUME Store!Crash PROVE StoreSays!Crash
  BY <1>3 DEF Store!Crash, StoreSays!Crash
<1> QED
  BY <1>1, <1>2, <1>3
  DEF Store!Next, StoreSays!Next, Store!Done, StoreSays!Done, Store!Settled, StoreSays!Settled,
      storeVars, Store!vars, StoreSays!vars

(* What the saves of the sessions keep of the directory: types, the numbers, *)
(* and what is saved when no two names of players meet.                     *)
DirectoryInv ==
    /\ StoreSays!TypeOK /\ StoreSays!OpenFilesExist
    /\ StoreSays!DenseInv
    /\ StoreSays!BasesApart => StoreSays!SaveInv

(* The directory starts so and stays so.                                    *)
LEMMA DirectoryAlways == ServiceSpec => []DirectoryInv
<1>1. Store!Init => DirectoryInv
  <2> SUFFICES ASSUME StoreSays!Init PROVE DirectoryInv
    BY StoreStarts
  <2>1. StoreSays!TypeOK /\ StoreSays!OpenFilesExist
    BY StoreConstants, StoreSays!TypeInit
  <2>2. StoreSays!DenseInv
    BY StoreConstants, StoreSays!DenseInit
  <2>3. StoreSays!BasesApart => StoreSays!SaveInv
    BY StoreConstants, StoreSays!SaveInit DEF StoreSays!Unshared
  <2> QED
    BY <2>1, <2>2, <2>3 DEF DirectoryInv
<1>2. DirectoryInv /\ [Store!Next]_storeVars => DirectoryInv'
  <2> SUFFICES ASSUME DirectoryInv, [StoreSays!Next]_StoreSays!vars PROVE DirectoryInv'
    BY StoreGoesOn
  <2>1. StoreSays!TypeOK' /\ StoreSays!OpenFilesExist'
    BY StoreConstants, StoreSays!TypeStep DEF DirectoryInv
  <2>2. StoreSays!DenseInv'
    BY StoreConstants, StoreSays!DenseStep DEF DirectoryInv
  <2>3. StoreSays!BasesApart => StoreSays!SaveInv'
    BY StoreConstants, StoreSays!SaveInvStep DEF DirectoryInv, StoreSays!Unshared
  <2> QED
    BY <2>1, <2>2, <2>3 DEF DirectoryInv, StoreSays!BasesApart
<1> QED
  BY <1>1, <1>2, ServiceKeepsStore, PTL

(* However many sessions save, the numbers of duplicates have no gap; and    *)
(* when no two players share a name, what is reported as saved stays on disk *)
(* beside its own data.                                                     *)
THEOREM ServiceKeepsCaptures ==
    ServiceSpec => [](/\ StoreSays!NumberingIsDense
                      /\ StoreSays!BasesApart => /\ StoreSays!SavedIsOnDisk
                                                 /\ StoreSays!PairFromOneCapture)
<1>1. DirectoryInv => StoreSays!NumberingIsDense
  BY StoreConstants, StoreSays!DenseMeans DEF DirectoryInv
<1>2. DirectoryInv /\ StoreSays!BasesApart => StoreSays!SavedIsOnDisk /\ StoreSays!PairFromOneCapture
  BY DEF DirectoryInv, StoreSays!SaveInv
<1> QED
  BY <1>1, <1>2, DirectoryAlways, PTL

(***************************************************************************)
(* Nobody is told of a capture that is still being saved                   *)
(***************************************************************************)

(* A thread saves the capture of its own session, while that waits.         *)
TellInv(s) ==
    /\ savePc[s] # "idle" => pc[s] = "saving" /\ saveCap[s] = s
    /\ verdict[s] = "running" => savePc[s] # "idle"

(* A system call of a save moves that save only, and a save that is over    *)
(* has a verdict.                                                           *)
LEMMA SaveMoves ==
    ASSUME StoreSays!TypeOK, NEW s \in Sessions, Store!Step(s), saveCap[s] = s
    PROVE  /\ savePc[s] # "idle" /\ UNCHANGED saveCap
           /\ verdict'[s] = "running" => savePc'[s] # "idle"
           /\ \A r \in Sessions \ {s} : savePc'[r] = savePc[r] /\ verdict'[r] = verdict[r]
<1> USE DEF StoreSays!TypeOK, Store!Goto, Store!Finish
<1>1. CASE Store!ProbePng(s)
  BY <1>1 DEF Store!ProbePng, Store!NextCandidate
<1>2. CASE Store!ProbeJson(s)
  BY <1>2 DEF Store!ProbeJson, Store!NextCandidate
<1>3. CASE Store!CreatePng(s)
  BY <1>3 DEF Store!CreatePng
<1>4. CASE Store!WritePng(s)
  BY <1>4 DEF Store!WritePng
<1>5. CASE Store!CreateJson(s)
  BY <1>5 DEF Store!CreateJson, Store!SidecarFails
<1>6. CASE Store!WriteJson(s)
  BY <1>6 DEF Store!WriteJson, Store!SidecarFails
<1> QED
  BY <1>1, <1>2, <1>3, <1>4, <1>5, <1>6 DEF Store!Step

(* The step of a session that hands its capture over starts that save only. *)
LEMMA SaveStarts ==
    ASSUME StoreSays!TypeOK, NEW s \in Sessions, Store!BeginSave(s, s) \/ Store!SkipSave(s, s)
    PROVE  /\ savePc'[s] # "idle" => saveCap'[s] = s
           /\ verdict'[s] = "running" => savePc'[s] # "idle"
           /\ \A r \in Sessions \ {s} : /\ savePc'[r] = savePc[r] /\ verdict'[r] = verdict[r]
                                        /\ saveCap'[r] = saveCap[r]
BY DEF StoreSays!TypeOK, Store!BeginSave, Store!SkipSave, Store!Goto

(* Every step keeps what is known of the saves.                             *)
LEMMA TellStep ==
    ASSUME TypeOK, StoreSays!TypeOK, \A s \in Sessions : TellInv(s),
           [ServiceNext]_<<vars, storeVars>>
    PROVE  \A s \in Sessions : TellInv(s)'
<1> SUFFICES ASSUME NEW r \in Sessions PROVE TellInv(r)'
  OBVIOUS
<1> USE DEF TellInv
<1>1. ASSUME NEW s \in Sessions, LoginStartsSave(s) PROVE TellInv(r)'
  <2>1. pc'[s] = "saving"
    BY <1>1 DEF LoginStartsSave
  <2>2. r # s => pc'[r] = pc[r]
    BY <1>1 DEF LoginStartsSave, Login, Goto, TypeOK
  <2> QED
    BY <1>1, <2>1, <2>2, SaveStarts DEF LoginStartsSave
<1>2. ASSUME NEW s \in Sessions, SaveStep(s) PROVE TellInv(r)'
  <2>1. savePc[s] # "idle"
    BY <1>2 DEF SaveStep, Store!Step, Store!ProbePng, Store!ProbeJson, Store!CreatePng,
                Store!WritePng, Store!CreateJson, Store!WriteJson
  <2>2. saveCap[s] = s /\ pc[s] = "saving" /\ UNCHANGED pc
    BY <1>2, <2>1 DEF SaveStep, vars, serverVars
  <2>3. /\ UNCHANGED saveCap
        /\ verdict'[s] = "running" => savePc'[s] # "idle"
        /\ r # s => savePc'[r] = savePc[r] /\ verdict'[r] = verdict[r]
    BY <1>2, <2>2, SaveMoves DEF SaveStep
  <2> QED
    BY <2>1, <2>2, <2>3
<1>3. ASSUME NEW s \in Sessions, SaveDone(s) PROVE TellInv(r)'
  <2>1. UNCHANGED <<savePc, saveCap, verdict>> /\ savePc[s] = "idle"
    BY <1>3 DEF SaveDone, storeVars
  <2>2. r # s => pc'[r] = pc[r]
    BY <1>3 DEF SaveDone, SaveReturned, Goto, TypeOK
  <2> QED
    BY <2>1, <2>2
<1>4. ASSUME NEW s \in Sessions, NoSave(s) \/ ((RecvError(s) \/ Client(s)) /\ UNCHANGED storeVars)
      PROVE  TellInv(r)'
  <2>1. UNCHANGED <<savePc, saveCap, verdict>>
    BY <1>4 DEF NoSave, storeVars
  <2>2. StepOf(s)
    BY <1>4 DEF NoSave, StepOf, ServerStep, HandlePacket
  <2>3. CASE r # s
    BY <2>1, <2>2, <2>3, OthersStand DEF Same
  <2>4. CASE r = s
    <3>1. pc[s] = "saving" => UNCHANGED pc
      BY <1>4 DEF NoSave, RecvReliable, RecvUnreliable, ChannelClosed, Receiving, IgnorePacket,
           RequestNetworkSettings, SendSettings, Login, NextPacketIs, SendBundle, SleepOver, Close,
           RecvError, Client, ClientSend, ClientClose, Lose, serverVars
    <3> QED
      BY <2>1, <2>4, <3>1
  <2> QED
    BY <2>3, <2>4
<1>5. CASE UNCHANGED <<vars, storeVars>>
  BY <1>5 DEF vars, serverVars, storeVars
<1> QED
  BY <1>1, <1>2, <1>3, <1>4, <1>5 DEF ServiceNext, TaskStep

(* A client is told "Skin captured" only when its save has come to an end,  *)
(* and a session that is answered or closed leaves no save behind.          *)
THEOREM ToldOnlyWhenSettled == ServiceSpec => []ToldWhenSettled
<1>1. ServiceInit => \A s \in Sessions : TellInv(s)
  BY DEF ServiceInit, Store!Init, TellInv
<1>2. Init /\ [][Next]_vars => []SessionInv
  BY SessionInit, SessionStep, PTL
<1>3. SessionInv /\ DirectoryInv /\ (\A s \in Sessions : TellInv(s)) /\ [ServiceNext]_<<vars, storeVars>>
        => (\A s \in Sessions : TellInv(s))'
  BY TellStep DEF SessionInv, DirectoryInv
<1>4. SessionInv /\ (\A s \in Sessions : TellInv(s)) => ToldWhenSettled
  BY DEF SessionInv, AnswerInv, TellInv, ToldWhenSettled, Sent
<1> QED
  BY <1>1, <1>2, <1>3, <1>4, ServiceKeepsSessions, DirectoryAlways, PTL DEF ServiceSpec
=============================================================================
