------------------------- MODULE CaptureStoreProofs -------------------------
(***************************************************************************)
(* Theorems about CaptureStore: types; what the numbered save modes        *)
(* guarantee when the calls cannot meet on a name; that the numbers of     *)
(* duplicates have no gap; and what overwriting leaves behind.             *)
(***************************************************************************)
EXTENDS CaptureStore, TLAPS

(* A candidate name is a sequence of numbers, whatever its count.           *)
LEMMA StemType ==
    ASSUME NEW c \in Captures, NEW n \in 0..MaxCount
    PROVE  Stem(BaseName[c], n) \in Stems
<1>1. BaseName[c] \in Seq(Nat)
  BY BaseNameAssumption
<1>2. n \in Nat
  BY CounterAssumption
<1> QED
  BY <1>1, <1>2 DEF Stem, Stems

(* The target of a call is such a name.                                     *)
LEMMA TargetType ==
    ASSUME TypeOK, NEW w \in Workers
    PROVE  Target(w) \in Stems
BY StemType DEF TypeOK, Target

(* Writing one file leaves the set of file contents well typed.             *)
LEMMA PutType ==
    ASSUME NEW files, DOMAIN files \subseteq Stems,
           \A t \in DOMAIN files : files[t] \in Contents,
           NEW s \in Stems, NEW contents \in Contents
    PROVE  /\ DOMAIN Put(files, s, contents) \subseteq Stems
           /\ \A t \in DOMAIN Put(files, s, contents) :
                  Put(files, s, contents)[t] \in Contents
BY DEF Put

(* What a write makes of a file is well typed.                              *)
LEMMA OverlayType ==
    ASSUME NEW old \in Contents, NEW c \in Captures, NEW new \in Overlays(old, c)
    PROVE  new \in Contents
BY DEF Overlays, Contents

(* The types hold at first.                                                 *)
LEMMA TypeInit == Init => TypeOK /\ OpenFilesExist
BY CapturesAssumption, BaseNameAssumption, OldFilesAssumption, CounterAssumption, FaultAssumption
   DEF Init, TypeOK, OpenFilesExist, Stems, Contents, PC, Verdicts

(* The directory, the calls in progress and the verdicts have their types,  *)
(* and a file being filled exists: what one step preserves.                 *)
LEMMA TypeStep ==
    ASSUME TypeOK, OpenFilesExist, [Next]_vars
    PROVE  TypeOK' /\ OpenFilesExist'
<1> USE DEF TypeOK, OpenFilesExist, PC, Verdicts
<1>1. ASSUME NEW w \in Workers, NEW c \in Captures, SkipSave(w, c)
      PROVE  TypeOK' /\ OpenFilesExist'
  BY <1>1 DEF SkipSave, Target
<1>2. ASSUME NEW w \in Workers, NEW c \in Captures, BeginSave(w, c)
      PROVE  TypeOK' /\ OpenFilesExist'
  BY <1>2, CounterAssumption DEF BeginSave, Goto, Target
<1>3. ASSUME NEW w \in Workers, ProbePng(w)
      PROVE  TypeOK' /\ OpenFilesExist'
  BY <1>3, CounterAssumption DEF ProbePng, PngExists, NextCandidate, Goto, Target
<1>4. ASSUME NEW w \in Workers, ProbeJson(w)
      PROVE  TypeOK' /\ OpenFilesExist'
  BY <1>4, CounterAssumption DEF ProbeJson, JsonExists, NextCandidate, Goto, Target
<1>5. ASSUME NEW w \in Workers, CreatePng(w)
      PROVE  TypeOK' /\ OpenFilesExist'
  <2>1. DOMAIN png' \subseteq Stems /\ \A s \in DOMAIN png' : png'[s] \in Contents
    BY <1>5, PutType, TargetType DEF CreatePng, Contents
  <2>2. TypeOK'
    BY <1>5, <2>1 DEF CreatePng, Goto, Finish
  <2>3. OpenFilesExist'
    BY <1>5 DEF CreatePng, Goto, Finish, Target, Put
  <2> QED
    BY <2>2, <2>3
<1>6. ASSUME NEW w \in Workers, WritePng(w)
      PROVE  TypeOK' /\ OpenFilesExist'
  <2>1. Target(w) \in DOMAIN png /\ png[Target(w)] \in Contents
    BY <1>6 DEF WritePng
  <2>2. DOMAIN png' \subseteq Stems /\ \A s \in DOMAIN png' : png'[s] \in Contents
    BY <1>6, <2>1, PutType, TargetType, OverlayType DEF WritePng
  <2>3. TypeOK'
    BY <1>6, <2>2 DEF WritePng, Goto, Finish
  <2>4. OpenFilesExist'
    BY <1>6 DEF WritePng, Goto, Finish, Target, Put
  <2> QED
    BY <2>3, <2>4
<1>7. ASSUME NEW w \in Workers, CreateJson(w)
      PROVE  TypeOK' /\ OpenFilesExist'
  <2>1. DOMAIN json' \subseteq Stems /\ \A s \in DOMAIN json' : json'[s] \in Contents
    BY <1>7, PutType, TargetType DEF CreateJson, SidecarFails, Contents
  <2>2. TypeOK'
    BY <1>7, <2>1, TargetType DEF CreateJson, SidecarFails, Goto, Finish
  <2>3. OpenFilesExist'
    BY <1>7 DEF CreateJson, SidecarFails, Goto, Finish, Target, Put
  <2> QED
    BY <2>2, <2>3
<1>8. ASSUME NEW w \in Workers, WriteJson(w)
      PROVE  TypeOK' /\ OpenFilesExist'
  <2>1. Target(w) \in DOMAIN json /\ json[Target(w)] \in Contents
    BY <1>8 DEF WriteJson
  <2>2. DOMAIN json' \subseteq Stems /\ \A s \in DOMAIN json' : json'[s] \in Contents
    BY <1>8, <2>1, PutType, TargetType, OverlayType DEF WriteJson, SidecarFails
  <2>3. TypeOK'
    BY <1>8, <2>2, TargetType DEF WriteJson, SidecarFails, Goto, Finish
  <2>4. OpenFilesExist'
    BY <1>8 DEF WriteJson, SidecarFails, Goto, Finish, Target, Put
  <2> QED
    BY <2>3, <2>4
<1>9. ASSUME Crash PROVE TypeOK' /\ OpenFilesExist'
  BY <1>9, FaultAssumption DEF Crash
<1>10. ASSUME UNCHANGED vars PROVE TypeOK' /\ OpenFilesExist'
  BY <1>10 DEF vars, Target
<1> QED
  BY <1>1, <1>2, <1>3, <1>4, <1>5, <1>6, <1>7, <1>8, <1>9, <1>10 DEF Next, Step, Done

(* The directory, the calls in progress and the verdicts have their types,  *)
(* and a file that a call has opened and not yet filled is there: nothing   *)
(* removes a file.                                                          *)
THEOREM TypeCorrect == Spec => [](TypeOK /\ OpenFilesExist)
<1>1. TypeOK /\ OpenFilesExist /\ [Next]_vars => (TypeOK /\ OpenFilesExist)'
  BY TypeStep
<1> QED
  BY TypeInit, <1>1, PTL DEF Spec

(* Two calls that save different captures consider different names: either  *)
(* there is one thread, or the captures have no candidate in common.        *)
LEMMA TargetsApart ==
    ASSUME Unshared, TypeOK, NEW v \in Workers, NEW w \in Workers, v # w,
           cap[v] # cap[w]
    PROVE  Target(v) # Target(w)
BY DEF Unshared, OneWriter, BasesApart, TypeOK, Target

(* One step of the numbered modes preserves what the calls know, and the    *)
(* saved files.                                                             *)
LEMMA SaveStep ==
    ASSUME Unshared, TypeOK, OpenFilesExist, Numbered, SaveInv, [Next]_vars
    PROVE  SaveInv'
<1> USE DEF TypeOK, PC, Verdicts, Numbered
<1>1. savemode' = savemode
  BY DEF Next, SkipSave, BeginSave, Step, ProbePng, PngExists, ProbeJson, JsonExists, CreatePng, WritePng,
         CreateJson, WriteJson, Crash, Done, vars
<1>2. SUFFICES /\ (\A v \in Workers : WriterKnows(v))'
               /\ OneCallPerCapture' /\ SavedIsOnDisk' /\ PairFromOneCapture'
  BY DEF SaveInv
<1>3. /\ \A v \in Workers : WriterKnows(v)
      /\ OneCallPerCapture /\ SavedIsOnDisk /\ PairFromOneCapture
  BY DEF SaveInv
<1>4. \A v, w \in Workers : v # w /\ pc[v] # "idle" /\ pc[w] # "idle" => Target(v) # Target(w)
  BY <1>3, TargetsApart DEF OneCallPerCapture
<1>5. ASSUME NEW w \in Workers, NEW c \in Captures, SkipSave(w, c) PROVE FALSE
  BY <1>5 DEF SkipSave
<1>6. ASSUME NEW w \in Workers, NEW c \in Captures, BeginSave(w, c)
      PROVE  /\ (\A v \in Workers : WriterKnows(v))'
             /\ OneCallPerCapture' /\ SavedIsOnDisk' /\ PairFromOneCapture'
  <2>1. (\A v \in Workers : WriterKnows(v))'
    <3>1. UNCHANGED <<savemode, png, json>>
      BY <1>6 DEF BeginSave
    <3> SUFFICES ASSUME NEW v \in Workers PROVE WriterKnows(v)'
      OBVIOUS
    <3>2. CASE v = w
      <4>1. pc[w] = "idle" /\ cap'[w] = c /\ pc'[w] \in {"idle", "probePng"}
        BY <1>6 DEF BeginSave, Goto
      <4>2. pc'[w] = "probePng" => verdict'[c] = "running" /\ savemode # 0
        BY <1>6, <4>1 DEF BeginSave, Goto
      <4> QED
        BY <3>1, <3>2, <4>1, <4>2 DEF WriterKnows
    <3>3. CASE v # w
      <4>1. pc'[v] = pc[v] /\ cap'[v] = cap[v] /\ Target(v)' = Target(v)
        BY <1>6, <3>3 DEF BeginSave, Goto, Target
      <4>2. pc[v] # "idle" => verdict'[cap[v]] = verdict[cap[v]]
        <5>1. WriterKnows(v) /\ verdict[c] = "waiting"
          BY <1>3, <1>6 DEF BeginSave
        <5>2. pc[v] # "idle" => cap[v] # c
          BY <5>1 DEF WriterKnows
        <5> QED
          BY <1>6, <5>2 DEF BeginSave
      <4> QED
        BY <1>3, <3>1, <4>1, <4>2 DEF WriterKnows
    <3> QED
      BY <3>2, <3>3
  <2>2. OneCallPerCapture'
    BY <1>3, <1>6 DEF BeginSave, Goto, WriterKnows, OneCallPerCapture
  <2> QED
    BY <1>3, <1>6, <2>1, <2>2 DEF BeginSave, SavedIsOnDisk, PairFromOneCapture, Saved
<1>7. ASSUME NEW w \in Workers, ProbePng(w) \/ ProbeJson(w)
      PROVE  /\ (\A v \in Workers : WriterKnows(v))'
             /\ OneCallPerCapture' /\ SavedIsOnDisk' /\ PairFromOneCapture'
  <2>1. (\A v \in Workers : WriterKnows(v))'
    <3>1. UNCHANGED <<savemode, png, json, cap, verdict>>
      BY <1>7 DEF ProbePng, ProbeJson
    <3> SUFFICES ASSUME NEW v \in Workers PROVE WriterKnows(v)'
      OBVIOUS
    <3>2. CASE v = w
      <4>1. /\ pc[w] \in {"probePng", "probeJson"}
            /\ pc'[w] \in {"probePng", "probeJson", "createPng"}
        BY <1>7 DEF ProbePng, ProbeJson, NextCandidate, Goto
      <4>2. verdict[cap[w]] = "running" /\ savemode # 0
        BY <1>3, <4>1 DEF WriterKnows
      <4>3. pc'[w] = "probeJson" => Target(w)' = Target(w) /\ Target(w) \notin DOMAIN png
        BY <1>7 DEF ProbePng, PngExists, ProbeJson, NextCandidate, Goto, Target
      <4>4. pc'[w] = "createPng" =>
              /\ Target(w)' = Target(w)
              /\ Target(w) \notin DOMAIN png /\ Target(w) \notin DOMAIN json
        BY <1>3, <1>7 DEF ProbePng, ProbeJson, JsonExists, NextCandidate, Goto, WriterKnows, Target
      <4> QED
        BY <3>1, <3>2, <4>1, <4>2, <4>3, <4>4 DEF WriterKnows
    <3>3. CASE v # w
      <4>1. pc'[v] = pc[v] /\ Target(v)' = Target(v)
        BY <1>7, <3>3 DEF ProbePng, ProbeJson, NextCandidate, Goto, Target
      <4> QED
        BY <1>3, <3>1, <4>1 DEF WriterKnows
    <3> QED
      BY <3>2, <3>3
  <2>2. OneCallPerCapture'
    BY <1>3, <1>7 DEF ProbePng, PngExists, ProbeJson, JsonExists, NextCandidate, Goto, OneCallPerCapture
  <2> QED
    BY <1>3, <1>7, <2>1, <2>2
    DEF ProbePng, PngExists, ProbeJson, JsonExists, SavedIsOnDisk, PairFromOneCapture, Saved
<1>8. ASSUME NEW w \in Workers, CreatePng(w)
      PROVE  /\ (\A v \in Workers : WriterKnows(v))'
             /\ OneCallPerCapture' /\ SavedIsOnDisk' /\ PairFromOneCapture'
  <2>1. Target(w) \notin DOMAIN png /\ Target(w) \notin DOMAIN json
    BY <1>3, <1>8 DEF CreatePng, WriterKnows
  <2>2. /\ \A s \in DOMAIN png : s \in DOMAIN png' /\ png'[s] = png[s]
        /\ \A s \in DOMAIN png' : s \in DOMAIN png \/ (s = Target(w) /\ png'[s] = {})
    BY <1>8, <2>1 DEF CreatePng, Put
  <2>3. (\A v \in Workers : WriterKnows(v))'
    <3> SUFFICES ASSUME NEW v \in Workers PROVE WriterKnows(v)'
      OBVIOUS
    <3>1. CASE v = w
      BY <1>3, <1>8, <2>1, <3>1 DEF CreatePng, Goto, Finish, WriterKnows, Target, Put
    <3>2. CASE v # w
      <4>1. pc'[v] = pc[v] /\ cap'[v] = cap[v] /\ Target(v)' = Target(v)
        BY <1>8, <3>2 DEF CreatePng, Goto, Finish, Target
      <4>2. pc[v] # "idle" => Target(v) # Target(w)
        BY <1>4, <1>8, <3>2 DEF CreatePng
      <4>3. pc[v] # "idle" => verdict'[cap[v]] = verdict[cap[v]]
        BY <1>3, <1>8, <3>2 DEF CreatePng, Finish, OneCallPerCapture
      <4> QED
        BY <1>1, <1>3, <1>8, <2>2, <4>1, <4>2, <4>3 DEF CreatePng, WriterKnows
    <3> QED
      BY <3>1, <3>2
  <2>4. OneCallPerCapture'
    BY <1>3, <1>8 DEF CreatePng, Goto, Finish, OneCallPerCapture
  <2>5. SavedIsOnDisk'
    BY <1>3, <1>8, <2>2 DEF CreatePng, Finish, SavedIsOnDisk, Saved
  <2>6. PairFromOneCapture'
    BY <1>3, <1>8, <2>1, <2>2 DEF CreatePng, PairFromOneCapture
  <2> QED
    BY <2>3, <2>4, <2>5, <2>6
<1>9. ASSUME NEW w \in Workers, WritePng(w)
      PROVE  /\ (\A v \in Workers : WriterKnows(v))'
             /\ OneCallPerCapture' /\ SavedIsOnDisk' /\ PairFromOneCapture'
  <2>1. Target(w) \in DOMAIN png /\ png[Target(w)] = {} /\ Target(w) \notin DOMAIN json
    BY <1>3, <1>9 DEF WritePng, WriterKnows
  <2>2. /\ DOMAIN png' = DOMAIN png
        /\ \A s \in DOMAIN png : s # Target(w) => png'[s] = png[s]
        /\ pc'[w] = "createJson" => png'[Target(w)] = {cap[w]}
    BY <1>9, <2>1 DEF WritePng, Put, Overlays, Goto, Finish
  <2>3. (\A v \in Workers : WriterKnows(v))'
    <3> SUFFICES ASSUME NEW v \in Workers PROVE WriterKnows(v)'
      OBVIOUS
    <3>1. CASE v = w
      BY <1>3, <1>9, <2>1, <2>2, <3>1 DEF WritePng, Goto, Finish, WriterKnows, Target
    <3>2. CASE v # w
      <4>1. pc'[v] = pc[v] /\ cap'[v] = cap[v] /\ Target(v)' = Target(v)
        BY <1>9, <3>2 DEF WritePng, Goto, Finish, Target
      <4>2. pc[v] # "idle" => Target(v) # Target(w)
        BY <1>4, <1>9, <3>2 DEF WritePng
      <4>3. pc[v] # "idle" => verdict'[cap[v]] = verdict[cap[v]]
        BY <1>3, <1>9, <3>2 DEF WritePng, Finish, OneCallPerCapture
      <4> QED
        BY <1>1, <1>3, <1>9, <2>2, <4>1, <4>2, <4>3 DEF WritePng, WriterKnows
    <3> QED
      BY <3>1, <3>2
  <2>4. OneCallPerCapture'
    BY <1>3, <1>9 DEF WritePng, Goto, Finish, OneCallPerCapture
  <2>5. SavedIsOnDisk'
    <3>1. ASSUME NEW c \in Captures, Saved(c)' PROVE Saved(c) /\ path'[c] = path[c]
      BY <1>9, <3>1 DEF WritePng, Finish, Saved
    <3>2. ASSUME NEW c \in Captures, Saved(c) PROVE path[c] # Target(w)
      BY <1>3, <2>1, <3>2 DEF SavedIsOnDisk
    <3> QED
      BY <1>3, <2>2, <3>1, <3>2 DEF SavedIsOnDisk
  <2>6. PairFromOneCapture'
    BY <1>3, <1>9, <2>1, <2>2 DEF WritePng, PairFromOneCapture
  <2> QED
    BY <2>3, <2>4, <2>5, <2>6
<1>10. ASSUME NEW w \in Workers, CreateJson(w) \/ WriteJson(w)
       PROVE  /\ (\A v \in Workers : WriterKnows(v))'
              /\ OneCallPerCapture' /\ SavedIsOnDisk' /\ PairFromOneCapture'
  <2>1. /\ Target(w) \in DOMAIN png /\ png[Target(w)] = {cap[w]}
        /\ pc[w] = "createJson" => Target(w) \notin DOMAIN json
        /\ pc[w] = "writeJson" => Target(w) \in DOMAIN json /\ json[Target(w)] = {}
    BY <1>3, <1>10 DEF CreateJson, WriteJson, WriterKnows
  <2>2. /\ png' = png
        /\ \A s \in DOMAIN json : s \in DOMAIN json' /\ (s # Target(w) => json'[s] = json[s])
        /\ \A s \in DOMAIN json' : s \in DOMAIN json \/ s = Target(w)
        /\ json' = json \/ (Target(w) \in DOMAIN json' /\ json'[Target(w)] \subseteq {cap[w]})
        /\ pc'[w] = "writeJson" => Target(w) \in DOMAIN json' /\ json'[Target(w)] = {}
    <3>1. CASE CreateJson(w)
      BY <2>1, <3>1 DEF CreateJson, SidecarFails, Put, Goto, Finish
    <3>2. CASE WriteJson(w)
      BY <2>1, <3>2 DEF WriteJson, SidecarFails, Put, Overlays, Goto, Finish
    <3> QED
      BY <1>10, <3>1, <3>2
  <2>3. (\A v \in Workers : WriterKnows(v))'
    <3> SUFFICES ASSUME NEW v \in Workers PROVE WriterKnows(v)'
      OBVIOUS
    <3>1. CASE v = w
      BY <1>1, <1>3, <1>10, <2>1, <2>2, <3>1
      DEF CreateJson, WriteJson, SidecarFails, Goto, Finish, WriterKnows, Target
    <3>2. CASE v # w
      <4>1. pc'[v] = pc[v] /\ cap'[v] = cap[v] /\ Target(v)' = Target(v)
        BY <1>10, <3>2 DEF CreateJson, WriteJson, SidecarFails, Goto, Finish, Target
      <4>2. pc[v] # "idle" => Target(v) # Target(w)
        BY <1>4, <1>10, <3>2 DEF CreateJson, WriteJson
      <4>3. pc[v] # "idle" => verdict'[cap[v]] = verdict[cap[v]]
        BY <1>3, <1>10, <3>2 DEF CreateJson, WriteJson, SidecarFails, Finish, OneCallPerCapture
      <4> QED
        BY <1>1, <1>3, <2>2, <4>1, <4>2, <4>3 DEF WriterKnows
    <3> QED
      BY <3>1, <3>2
  <2>4. OneCallPerCapture'
    BY <1>3, <1>10 DEF CreateJson, WriteJson, SidecarFails, Goto, Finish, OneCallPerCapture
  <2>5. SavedIsOnDisk'
    BY <1>3, <1>10, <2>1, <2>2
    DEF CreateJson, WriteJson, SidecarFails, Goto, Finish, SavedIsOnDisk, Saved
  <2>6. PairFromOneCapture'
    BY <1>3, <2>1, <2>2 DEF PairFromOneCapture
  <2> QED
    BY <2>3, <2>4, <2>5, <2>6
<1>11. ASSUME Crash
       PROVE  /\ (\A v \in Workers : WriterKnows(v))'
              /\ OneCallPerCapture' /\ SavedIsOnDisk' /\ PairFromOneCapture'
  BY <1>3, <1>11 DEF Crash, WriterKnows, OneCallPerCapture, SavedIsOnDisk, PairFromOneCapture, Saved
<1>12. ASSUME UNCHANGED vars
       PROVE  /\ (\A v \in Workers : WriterKnows(v))'
              /\ OneCallPerCapture' /\ SavedIsOnDisk' /\ PairFromOneCapture'
  BY <1>3, <1>12
  DEF vars, WriterKnows, Target, OneCallPerCapture, SavedIsOnDisk, PairFromOneCapture, Saved
<1> QED
  BY <1>5, <1>6, <1>7, <1>8, <1>9, <1>10, <1>11, <1>12 DEF Next, Step, Done

(* What the calls know holds at first.                                      *)
LEMMA SaveInit == Init => SaveInv
BY DEF Init, SaveInv, WriterKnows, OneCallPerCapture, SavedIsOnDisk, PairFromOneCapture, Saved

(* Every step keeps it: with one thread, or with captures that have no      *)
(* candidate name in common.                                                *)
LEMMA SaveInvStep ==
    ASSUME Unshared, TypeOK, OpenFilesExist, SaveInv, [Next]_vars
    PROVE  SaveInv'
<1>1. CASE Numbered
  BY <1>1, SaveStep
<1>2. CASE ~Numbered
  <2>1. savemode' = savemode
    BY DEF Next, SkipSave, BeginSave, Step, ProbePng, PngExists, ProbeJson, JsonExists, CreatePng,
           WritePng, CreateJson, WriteJson, Crash, Done, vars
  <2> QED
    BY <1>2, <2>1 DEF SaveInv, Numbered, SavedIsOnDisk, PairFromOneCapture
<1> QED
  BY <1>1, <1>2

(* The invariant of the numbered modes holds throughout.                    *)
THEOREM SaveInvariant ==
    ASSUME Unshared
    PROVE  Spec => [](TypeOK /\ OpenFilesExist /\ SaveInv)
<1>1. Init => TypeOK /\ OpenFilesExist /\ SaveInv
  BY TypeInit, SaveInit
<1>2. TypeOK /\ OpenFilesExist /\ SaveInv /\ [Next]_vars => (TypeOK /\ OpenFilesExist /\ SaveInv)'
  BY TypeStep, SaveInvStep
<1> QED
  BY <1>1, <1>2, PTL DEF Spec

(* A capture reported as saved under a numbered name has its whole image at *)
(* the path that was returned, for any number of captures, kills and disk   *)
(* errors.                                                                  *)
THEOREM SavedStaysOnDisk ==
    ASSUME Unshared
    PROVE  Spec => []SavedIsOnDisk
<1>1. SaveInv => SavedIsOnDisk
  BY DEF SaveInv
<1> QED
  BY <1>1, SaveInvariant, PTL

(* The image and the sidecar of one numbered name are of one capture.       *)
THEOREM PairsMatch ==
    ASSUME Unshared
    PROVE  Spec => []PairFromOneCapture
<1>1. SaveInv => PairFromOneCapture
  BY DEF SaveInv
<1> QED
  BY <1>1, SaveInvariant, PTL

(* No step of a numbered save changes a file that was there before it: not  *)
(* the files of earlier runs, not a finished capture, not what a killed     *)
(* save left behind.                                                        *)
THEOREM FilesAreNeverOverwritten ==
    ASSUME Unshared
    PROVE  Spec => OldFilesKept
<1> DEFINE Keeps ==
      Numbered =>
        /\ \A s \in DOMAIN png : s \in DOMAIN png'
               /\ (png'[s] = png[s] \/ (png[s] = {} /\ s \in BeingWritten))
        /\ \A s \in DOMAIN json : s \in DOMAIN json'
               /\ (json'[s] = json[s] \/ (json[s] = {} /\ s \in BeingWritten))
<1>1. TypeOK /\ OpenFilesExist /\ SaveInv /\ [Next]_vars => [Keeps]_vars
  <2> SUFFICES ASSUME TypeOK, OpenFilesExist, SaveInv, Next, Numbered PROVE Keeps
    BY DEF vars, Numbered
  <2>1. \A w \in Workers : WriterKnows(w)
    BY DEF SaveInv
  <2>2. ASSUME UNCHANGED <<png, json>> PROVE Keeps
    BY <2>2
  <2>3. ASSUME NEW w \in Workers, CreatePng(w) PROVE Keeps
    BY <2>1, <2>3 DEF CreatePng, WriterKnows, Put
  <2>4. ASSUME NEW w \in Workers, WritePng(w) PROVE Keeps
    BY <2>1, <2>4 DEF WritePng, WriterKnows, Put, BeingWritten
  <2>5. ASSUME NEW w \in Workers, CreateJson(w) PROVE Keeps
    BY <2>1, <2>5 DEF CreateJson, SidecarFails, WriterKnows, Put
  <2>6. ASSUME NEW w \in Workers, WriteJson(w) PROVE Keeps
    BY <2>1, <2>6 DEF WriteJson, SidecarFails, WriterKnows, Put, BeingWritten
  <2> QED
    BY <2>2, <2>3, <2>4, <2>5, <2>6
    DEF Next, Step, SkipSave, BeginSave, ProbePng, PngExists, ProbeJson, JsonExists, Crash, Done, vars
<1> QED
  BY <1>1, SaveInvariant, PTL DEF Spec, OldFilesKept

(***************************************************************************)
(* The numbers of duplicates have no gap, however many threads save; and   *)
(* what overwriting leaves behind when one thread saves at a time.         *)
(***************************************************************************)
(* A call has found all candidates before its own taken; so was the name of *)
(* a saved capture found.                                                   *)
TakenBefore(c, n) == \A k \in 0..(n - 1) : Stem(BaseName[c], k) \in Taken
DenseInv ==
    /\ \A w \in Workers : pc[w] # "idle" => TakenBefore(cap[w], count[w])
    /\ \A c \in Captures : Saved(c) =>
           \E n \in 0..MaxCount : path[c] = Stem(BaseName[c], n) /\ TakenBefore(c, n)

(* No step frees a name: files are created and truncated, never removed.    *)
LEMMA NamesStay ==
    ASSUME TypeOK, [Next]_vars
    PROVE  /\ Taken \subseteq Taken'
           /\ \A c \in Captures, n \in 0..MaxCount : TakenBefore(c, n) => TakenBefore(c, n)'
<1>1. UNCHANGED <<png, json>> \/ \E s, x : (png' = Put(png, s, x) /\ json' = json)
                                        \/ (json' = Put(json, s, x) /\ png' = png)
  BY DEF Next, SkipSave, BeginSave, Step, ProbePng, PngExists, ProbeJson, JsonExists, CreatePng, WritePng,
         CreateJson, WriteJson, SidecarFails, Crash, Done, vars
<1>2. Taken \subseteq Taken'
  BY <1>1 DEF Taken, Put
<1> QED
  BY <1>2 DEF TakenBefore

(* The search goes on behind a candidate that is taken.                     *)
LEMMA SearchStep ==
    ASSUME TypeOK, DenseInv, NEW w \in Workers, ProbePng(w) \/ ProbeJson(w)
    PROVE  TakenBefore(cap[w], count'[w])
<1>1. TakenBefore(cap[w], count[w]) /\ count[w] \in 0..MaxCount /\ MaxCount \in Nat
  BY CounterAssumption DEF DenseInv, ProbePng, ProbeJson, TypeOK
<1>2. CASE count'[w] = count[w]
  BY <1>1, <1>2
<1>3. CASE count'[w] # count[w]
  <2>1. count'[w] = count[w] + 1 /\ Target(w) \in Taken
    BY <1>1, <1>3
    DEF ProbePng, PngExists, ProbeJson, JsonExists, NextCandidate, Goto, Taken, TypeOK
  <2> QED
    BY <1>1, <2>1 DEF TakenBefore, Target
<1> QED
  BY <1>2, <1>3

(* Every step keeps the numbers dense.                                      *)
LEMMA DenseStep ==
    ASSUME TypeOK, DenseInv, [Next]_vars
    PROVE  DenseInv'
<1> USE DEF TypeOK
<1>1. \A c \in Captures, n \in 0..MaxCount : TakenBefore(c, n) => TakenBefore(c, n)'
  BY NamesStay
<1>2. ASSUME NEW c \in Captures, Saved(c), path'[c] = path[c]
      PROVE  \E n \in 0..MaxCount : path'[c] = Stem(BaseName[c], n) /\ TakenBefore(c, n)'
  BY <1>1, <1>2 DEF DenseInv
<1>3. ASSUME NEW w \in Workers, pc[w] # "idle", cap'[w] = cap[w], count'[w] = count[w]
      PROVE  TakenBefore(cap[w], count[w])'
  BY <1>1, <1>3 DEF DenseInv
<1>4. ASSUME NEW w \in Workers, NEW c \in Captures, SkipSave(w, c) PROVE DenseInv'
  BY <1>2, <1>3, <1>4 DEF SkipSave, DenseInv, Saved
<1>5. ASSUME NEW w \in Workers, NEW c \in Captures, BeginSave(w, c) PROVE DenseInv'
  <2>1. TakenBefore(cap[w], count[w])'
    BY <1>5 DEF BeginSave, TakenBefore
  <2> QED
    BY <1>2, <1>3, <1>5, <2>1 DEF BeginSave, Goto, DenseInv, Saved
<1>6. ASSUME NEW w \in Workers, ProbePng(w) \/ ProbeJson(w) PROVE DenseInv'
  <2>1. UNCHANGED <<cap, verdict, path, png, json>>
    BY <1>6 DEF ProbePng, ProbeJson
  <2>2. TakenBefore(cap[w], count[w])'
    BY <1>6, <2>1, SearchStep DEF TakenBefore, Taken
  <2>3. \A v \in Workers : v # w => pc'[v] = pc[v] /\ count'[v] = count[v]
    BY <1>6 DEF ProbePng, PngExists, ProbeJson, JsonExists, NextCandidate, Goto
  <2> QED
    BY <1>2, <1>3, <2>1, <2>2, <2>3 DEF DenseInv, Saved
<1>7. ASSUME NEW w \in Workers, CreatePng(w) \/ WritePng(w) PROVE DenseInv'
  <2>1. UNCHANGED <<cap, count, path>> /\ pc[w] # "idle"
    BY <1>7 DEF CreatePng, WritePng
  <2>2. \A v \in Workers : v # w => pc'[v] = pc[v]
    BY <1>7 DEF CreatePng, WritePng, Goto, Finish
  <2>3. \A c \in Captures : Saved(c)' => Saved(c)
    BY <1>7 DEF CreatePng, WritePng, Finish, Saved
  <2> QED
    BY <1>2, <1>3, <2>1, <2>2, <2>3 DEF DenseInv
<1>8. ASSUME NEW w \in Workers, CreateJson(w) \/ WriteJson(w) PROVE DenseInv'
  <2>1. UNCHANGED <<cap, count>> /\ pc[w] # "idle"
    BY <1>8 DEF CreateJson, WriteJson
  <2>2. \A v \in Workers : v # w => pc'[v] = pc[v]
    BY <1>8 DEF CreateJson, WriteJson, SidecarFails, Goto, Finish
  <2>3. \/ UNCHANGED <<verdict, path>>
        \/ /\ path' = [path EXCEPT ![cap[w]] = Target(w)]
           /\ \E v : verdict' = [verdict EXCEPT ![cap[w]] = v]
    BY <1>8 DEF CreateJson, WriteJson, SidecarFails, Finish
  <2>4. TakenBefore(cap[w], count[w])' /\ count[w] \in 0..MaxCount
    BY <1>3, <2>1
  <2>5. ASSUME NEW c \in Captures, Saved(c)'
        PROVE  \E n \in 0..MaxCount : path'[c] = Stem(BaseName[c], n) /\ TakenBefore(c, n)'
    <3>1. CASE path'[c] = path[c] /\ Saved(c)
      BY <1>2, <3>1
    <3>2. CASE c = cap[w] /\ path'[c] = Target(w)
      BY <2>1, <2>4, <3>2 DEF Target
    <3> QED
      BY <2>3, <2>5, <3>1, <3>2 DEF Saved
  <2> QED
    BY <1>3, <2>1, <2>2, <2>5 DEF DenseInv
<1>9. CASE Crash
  BY <1>2, <1>9 DEF Crash, DenseInv, Saved
<1>10. CASE UNCHANGED vars
  BY <1>2, <1>3, <1>10 DEF vars, DenseInv, Saved
<1> QED
  BY <1>4, <1>5, <1>6, <1>7, <1>8, <1>9, <1>10 DEF Next, Step, Done

(* The numbers are dense at first.                                          *)
LEMMA DenseInit == Init => DenseInv
BY DEF Init, DenseInv, Saved

(* What the searches know says what the names of saved captures are.        *)
LEMMA DenseMeans == DenseInv => NumberingIsDense
BY DEF DenseInv, TakenBefore, NumberingIsDense

(* A capture returned as "base_n" found base ... base_(n-1) taken, however  *)
(* many threads search at once and whatever is killed.                      *)
THEOREM NumbersHaveNoGap == Spec => []NumberingIsDense
<1>1. TypeOK /\ OpenFilesExist /\ DenseInv /\ [Next]_vars => (TypeOK /\ OpenFilesExist /\ DenseInv)'
  BY TypeStep, DenseStep
<1> QED
  BY TypeInit, DenseInit, DenseMeans, <1>1, PTL DEF Spec

(* With overwriting and one thread: how far a call has come, and whose       *)
(* bytes the images hold.                                                   *)
ReplacerKnows(w) ==
    pc[w] # "idle" =>
        /\ verdict[cap[w]] = "running" /\ count[w] = 0
        /\ pc[w] \in {"createPng", "writePng", "createJson", "writeJson"}
        /\ pc[w] = "writePng" => Target(w) \in DOMAIN png /\ png[Target(w)] = {}
        /\ pc[w] \in {"createJson", "writeJson"} =>
               Target(w) \in DOMAIN png /\ png[Target(w)] = {cap[w]}
        /\ pc[w] = "writeJson" => Target(w) \in DOMAIN json /\ json[Target(w)] = {}
ImageOfCall ==
    \A s \in DOMAIN png, c \in Captures : c \in png[s] =>
        /\ s = BaseName[c] /\ verdict[c] # "waiting"
        /\ \A w \in Workers : pc[w] \in {"createPng", "writePng"} => cap[w] # c
ReplaceInv ==
    savemode = 1 /\ OneWriter =>
        (\A w \in Workers : ReplacerKnows(w)) /\ ImageOfCall /\ TornOnlyWhenInterrupted

(* Every step of the one thread keeps that.                                 *)
LEMMA ReplaceStep ==
    ASSUME TypeOK, ReplaceInv, [Next]_vars
    PROVE  ReplaceInv'
<1> SUFFICES ASSUME savemode = 1, OneWriter
             PROVE  ReplaceInv'
  BY DEF ReplaceInv, OneWriter, Next, SkipSave, BeginSave, Step, ProbePng, ProbeJson, CreatePng,
         WritePng, CreateJson, WriteJson, Crash, Done, vars
<1>a. /\ pc \in [Workers -> PC] /\ cap \in [Workers -> Captures]
      /\ verdict \in [Captures -> Verdicts] /\ count \in [Workers -> 0..MaxCount]
  BY DEF TypeOK
<1>b. \A w \in Workers : ReplacerKnows(w)
  BY DEF ReplaceInv
<1>c. ImageOfCall
  BY DEF ReplaceInv
<1>d. TornOnlyWhenInterrupted
  BY DEF ReplaceInv
<1> USE DEF ReplacerKnows, ImageOfCall
<1>1. ASSUME NEW w \in Workers, NEW c \in Captures, SkipSave(w, c) PROVE ReplaceInv'
  BY <1>1 DEF SkipSave
<1>2. ASSUME NEW w \in Workers, NEW c \in Captures, BeginSave(w, c) PROVE ReplaceInv'
  <2>1. UNCHANGED <<savemode, png, json>> /\ pc[w] = "idle" /\ verdict[c] = "waiting" /\ cap'[w] = c
    BY <1>2, <1>a DEF BeginSave
  <2>2. \A s \in DOMAIN png : c \notin png[s]
    BY <2>1, <1>c
  <2>3. \A v \in Workers : v = w
    BY DEF OneWriter
  <2>4. \/ pc'[w] = "idle" /\ verdict' = [verdict EXCEPT ![c] = "failed"]
        \/ /\ pc'[w] = "createPng" /\ count'[w] = 0
           /\ verdict' = [verdict EXCEPT ![c] = "running"]
    BY <1>2, <1>a DEF BeginSave, Goto
  <2>5. (\A v \in Workers : ReplacerKnows(v))'
    BY <2>1, <2>3, <2>4, <1>a
  <2>6. ImageOfCall'
    BY <2>1, <2>2, <2>3, <2>4, <1>a, <1>c
  <2>7. TornOnlyWhenInterrupted'
    BY <2>1, <2>2, <2>4, <1>a, <1>d DEF TornOnlyWhenInterrupted
  <2> QED
    BY <2>5, <2>6, <2>7 DEF ReplaceInv
<1>3. ASSUME NEW w \in Workers, ProbePng(w) \/ ProbeJson(w) PROVE ReplaceInv'
  BY <1>3, <1>b DEF ProbePng, ProbeJson
<1>4. ASSUME NEW w \in Workers, CreatePng(w) \/ WritePng(w) PROVE ReplaceInv'
  <2> DEFINE s == Target(w)
  <2>1. UNCHANGED <<savemode, json, cap, count>> /\ verdict[cap[w]] = "running" /\ count[w] = 0
    BY <1>4, <1>b DEF CreatePng, WritePng
  <2>2. \A v \in Workers : v = w
    BY DEF OneWriter
  <2>3. s = BaseName[cap[w]] /\ s' = s
    BY <2>1 DEF Target, Stem
  <2>4. \A t \in DOMAIN png : cap[w] \notin png[t]
    BY <1>4, <1>a, <1>c DEF CreatePng, WritePng
  <2>5. CASE UNCHANGED png /\ Finish(w, "failed")
    <3>1. pc'[w] = "idle" /\ verdict' = [verdict EXCEPT ![cap[w]] = "failed"]
      BY <2>5, <1>a DEF Finish, Goto
    <3>2. (\A v \in Workers : ReplacerKnows(v))'
      BY <3>1, <2>2
    <3>3. ImageOfCall'
      BY <3>1, <2>1, <2>2, <2>4, <2>5, <1>a, <1>c
    <3>4. TornOnlyWhenInterrupted'
      BY <3>1, <2>1, <2>4, <2>5, <1>a, <1>d DEF TornOnlyWhenInterrupted
    <3> QED
      BY <3>2, <3>3, <3>4 DEF ReplaceInv
  <2>6. CASE png' = Put(png, s, {}) /\ UNCHANGED verdict /\ Goto(w, "writePng")
    <3> HIDE DEF s
    <3>1. pc'[w] = "writePng"
      BY <2>6, <1>a DEF Goto
    <3>2. /\ DOMAIN png' = DOMAIN png \cup {s} /\ png'[s] = {}
          /\ \A t \in DOMAIN png : t # s => png'[t] = png[t]
      BY <2>6 DEF Put
    <3>3. (\A v \in Workers : ReplacerKnows(v))'
      BY <3>1, <3>2, <2>1, <2>2, <2>3, <2>6 DEF s
    <3>4. ImageOfCall'
      BY <3>2, <2>1, <2>2, <2>4, <2>6, <1>c
    <3>5. TornOnlyWhenInterrupted'
      BY <3>2, <2>1, <2>3, <2>6, <1>a, <1>d DEF TornOnlyWhenInterrupted
    <3> QED
      BY <3>3, <3>4, <3>5 DEF ReplaceInv
  <2>7. CASE /\ pc[w] = "writePng" /\ Goto(w, "createJson") /\ UNCHANGED verdict
             /\ \E new \in Overlays(png[s], cap[w]) : png' = Put(png, s, new)
    <3>1. png' = Put(png, s, {cap[w]})
      BY <2>7, <1>b DEF Overlays
    <3> HIDE DEF s
    <3>2. /\ DOMAIN png' = DOMAIN png \cup {s} /\ png'[s] = {cap[w]}
          /\ \A t \in DOMAIN png : t # s => png'[t] = png[t]
      BY <3>1 DEF Put
    <3>3. pc'[w] = "createJson"
      BY <2>7, <1>a DEF Goto
    <3>4. (\A v \in Workers : ReplacerKnows(v))'
      BY <3>2, <3>3, <2>1, <2>2, <2>3, <2>7 DEF s
    <3>5. ImageOfCall'
      BY <3>2, <3>3, <2>1, <2>2, <2>3, <2>7, <1>c
    <3>6. TornOnlyWhenInterrupted'
      BY <3>2, <2>1, <2>3, <2>7, <1>a, <1>d DEF TornOnlyWhenInterrupted
    <3> QED
      BY <3>4, <3>5, <3>6 DEF ReplaceInv
  <2> QED
    BY <1>4, <2>5, <2>6, <2>7 DEF CreatePng, WritePng
<1>5. ASSUME NEW w \in Workers, CreateJson(w) \/ WriteJson(w) PROVE ReplaceInv'
  <2> DEFINE s == Target(w)
  <2>1. UNCHANGED <<savemode, png, cap, count>> /\ verdict[cap[w]] = "running" /\ count[w] = 0
    BY <1>5, <1>b DEF CreateJson, WriteJson
  <2>2. \A v \in Workers : v = w
    BY DEF OneWriter
  <2>3. s = BaseName[cap[w]] /\ s' = s /\ s \in DOMAIN png /\ png[s] = {cap[w]}
    BY <1>5, <1>b, <2>1 DEF Target, Stem, CreateJson, WriteJson
  <2>4. CASE Finish(w, "savedPngOnly") /\ UNCHANGED json
    <3>1. pc'[w] = "idle" /\ verdict' = [verdict EXCEPT ![cap[w]] = "savedPngOnly"]
      BY <2>4, <1>a DEF Finish, Goto
    <3>2. (\A v \in Workers : ReplacerKnows(v))'
      BY <3>1, <2>2
    <3>3. ImageOfCall'
      BY <3>1, <2>1, <2>2, <1>a, <1>c
    <3>4. TornOnlyWhenInterrupted'
      BY <3>1, <2>1, <2>3, <2>4, <1>a, <1>d DEF TornOnlyWhenInterrupted
    <3> QED
      BY <3>2, <3>3, <3>4 DEF ReplaceInv
  <2>5. CASE json' = Put(json, s, {}) /\ UNCHANGED verdict /\ Goto(w, "writeJson")
    <3>1. pc'[w] = "writeJson"
      BY <2>5, <1>a DEF Goto
    <3> HIDE DEF s
    <3>2. /\ DOMAIN json' = DOMAIN json \cup {s} /\ json'[s] = {}
          /\ \A t \in DOMAIN json : t # s => json'[t] = json[t]
      BY <2>5 DEF Put
    <3>3. (\A v \in Workers : ReplacerKnows(v))'
      BY <3>1, <3>2, <2>1, <2>2, <2>3, <2>5 DEF s
    <3>4. ImageOfCall'
      BY <3>1, <2>1, <2>2, <2>5, <1>c
    <3>5. TornOnlyWhenInterrupted'
      BY <3>2, <2>1, <2>3, <2>5, <1>a, <1>d DEF TornOnlyWhenInterrupted
    <3> QED
      BY <3>3, <3>4, <3>5 DEF ReplaceInv
  <2>6. CASE /\ pc[w] = "writeJson" /\ Finish(w, "saved")
             /\ \E new \in Overlays(json[s], cap[w]) : json' = Put(json, s, new)
    <3>1. json' = Put(json, s, {cap[w]})
      BY <2>6, <1>b DEF Overlays
    <3>2. pc'[w] = "idle" /\ verdict' = [verdict EXCEPT ![cap[w]] = "saved"]
      BY <2>6, <1>a DEF Finish, Goto
    <3>3. (\A v \in Workers : ReplacerKnows(v))'
      BY <3>2, <2>2
    <3>4. ImageOfCall'
      BY <3>2, <2>1, <2>2, <1>a, <1>c
    <3> HIDE DEF s
    <3>5. /\ DOMAIN json' = DOMAIN json \cup {s} /\ json'[s] = {cap[w]}
          /\ \A t \in DOMAIN json : t # s => json'[t] = json[t]
      BY <3>1 DEF Put
    <3>6. \A t \in DOMAIN png : cap[w] \in png[t] => t = s
      BY <2>3, <1>a, <1>c
    <3> DEFINE Empty(t) == \E c \in Captures :
                    BaseName[c] = t /\ verdict[c] \in {"running", "lost", "failed"}
    <3>7. \A t \in DOMAIN png : png[t] = {} => Empty(t)'
      <4>1. ASSUME NEW t \in DOMAIN png, png[t] = {} PROVE Empty(t)'
        <5>1. PICK c \in Captures : BaseName[c] = t /\ verdict[c] \in {"running", "lost", "failed"}
          BY <4>1, <1>d DEF TornOnlyWhenInterrupted
        <5>2. c # cap[w]
          BY <4>1, <5>1, <2>3
        <5>3. verdict'[c] = verdict[c]
          BY <5>2, <3>2, <1>a
        <5> QED
          BY <5>1, <5>3
      <4> QED
        BY <4>1
    <3>8. ASSUME NEW t \in DOMAIN png, NEW c \in Captures, c \in png[t]
          PROVE  \/ t \in DOMAIN json' /\ json'[t] = png[t]
                 \/ verdict'[c] \in {"running", "lost", "savedPngOnly"}
      <4>1. CASE t = s
        BY <4>1, <3>5, <2>3
      <4>2. CASE t # s
        <5>1. verdict'[c] = verdict[c]
          BY <4>2, <3>8, <3>6, <3>2, <1>a
        <5> QED
          BY <4>2, <5>1, <3>8, <3>5, <1>d DEF TornOnlyWhenInterrupted
      <4> QED
        BY <4>1, <4>2
    <3>9. TornOnlyWhenInterrupted'
      BY <3>7, <3>8, <2>1 DEF TornOnlyWhenInterrupted
    <3> QED
      BY <3>3, <3>4, <3>9 DEF ReplaceInv
  <2> QED
    BY <1>5, <2>4, <2>5, <2>6 DEF CreateJson, WriteJson, SidecarFails
<1>6. CASE Crash
  <2>1. (\A w \in Workers : ReplacerKnows(w))'
    BY <1>6 DEF Crash
  <2>2. ImageOfCall'
    BY <1>6, <1>a, <1>c DEF Crash
  <2>3. TornOnlyWhenInterrupted'
    BY <1>6, <1>a, <1>d DEF Crash, TornOnlyWhenInterrupted
  <2> QED
    BY <2>1, <2>2, <2>3 DEF ReplaceInv
<1>7. CASE UNCHANGED vars
  <2>1. \A w \in Workers : Target(w)' = Target(w)
    BY <1>7 DEF Target, vars
  <2>2. (\A w \in Workers : ReplacerKnows(w))'
    BY <1>7, <2>1, <1>b DEF vars
  <2>3. ImageOfCall'
    BY <1>7, <1>c DEF vars
  <2>4. TornOnlyWhenInterrupted'
    BY <1>7, <1>d DEF TornOnlyWhenInterrupted, vars
  <2> QED
    BY <2>2, <2>3, <2>4 DEF ReplaceInv
<1> QED
  BY <1>1, <1>2, <1>3, <1>4, <1>5, <1>6, <1>7 DEF Next, Step, Done

(* One thread that overwrites leaves an unfilled image, or an image without *)
(* its own sidecar, only when a call is in progress, was killed, or failed. *)
THEOREM TornIsExplained == Spec => []TornOnlyWhenInterrupted
<1>1. Init => ReplaceInv
  BY CapturesAssumption DEF Init, ReplaceInv, ReplacerKnows, ImageOfCall, TornOnlyWhenInterrupted
<1>2. TypeOK /\ ReplaceInv /\ [Next]_vars => ReplaceInv'
  BY ReplaceStep
<1>3. ReplaceInv => TornOnlyWhenInterrupted
  BY DEF ReplaceInv, TornOnlyWhenInterrupted
<1> QED
  BY <1>1, <1>2, <1>3, TypeCorrect, PTL DEF Spec

(***************************************************************************)
(* The directory as a log                                                  *)
(***************************************************************************)

(* How far a call has come, and whether its capture is in the log: not      *)
(* before its image is written, and ever after.                             *)
CallInLog(w) ==
    pc[w] # "idle" =>
        /\ verdict[cap[w]] = "running"
        /\ pc[w] \in {"probePng", "probeJson", "createPng", "writePng"} => cap[w] \notin Kept
        /\ pc[w] \in {"probeJson", "createPng"} /\ Numbered => Target(w) \notin DOMAIN png
        /\ pc[w] \in {"probePng", "probeJson"} => Numbered
        /\ pc[w] = "writePng" => Target(w) \in DOMAIN png /\ png[Target(w)] = {}
        /\ pc[w] \in {"createJson", "writeJson"} =>
               Target(w) \in DOMAIN png /\ png[Target(w)] = {cap[w]}
LogInv ==
    /\ \A w \in Workers : CallInLog(w)
    /\ OneCallPerCapture
    /\ \A c \in Captures : verdict[c] = "waiting" => c \notin Kept

(* What a file that is written anew does to the log.                        *)
LEMMA PutKept ==
    ASSUME NEW s, NEW X, png' = Put(png, s, X), NEW c \in Captures
    PROVE  c \in Kept' <=> X = {c} \/ \E t \in DOMAIN png : t # s /\ png[t] = {c}
BY DEF Put, Kept

(* An image that is opened leaves the log as it is, or takes one capture    *)
(* out of it, if names are not numbered.                                    *)
LEMMA CreateKept ==
    ASSUME TypeOK, LogInv, NEW w \in Workers, pc[w] = "createPng", png' = Put(png, Target(w), {})
    PROVE  Kept' = Kept \/ (~Numbered /\ \E d \in Kept : Kept' = Kept \ {d})
<1> DEFINE s == Target(w)
<1>1. \A c \in Captures : c \in Kept' <=> \E t \in DOMAIN png : t # s /\ png[t] = {c}
  BY PutKept
<1>2. Kept \subseteq Captures /\ Kept' \subseteq Captures
  BY DEF Kept
<1>3. CASE \A d \in Captures : s \in DOMAIN png => png[s] # {d}
  BY <1>1, <1>2, <1>3 DEF Kept
<1>4. ASSUME NEW d \in Captures, s \in DOMAIN png, png[s] = {d}
      PROVE  Kept' = Kept \/ (~Numbered /\ \E e \in Kept : Kept' = Kept \ {e})
  <2>1. ~Numbered
    BY <1>4 DEF LogInv, CallInLog
  <2>2. d \in Kept
    BY <1>4 DEF Kept
  <2>3. \A c \in Captures : c # d => (c \in Kept' <=> c \in Kept)
    BY <1>1, <1>4 DEF Kept
  <2> QED
    BY <1>2, <2>1, <2>2, <2>3
<1> QED
  BY <1>3, <1>4

(* An image that is written puts its capture into the log.                  *)
LEMMA WriteKept ==
    ASSUME TypeOK, LogInv, NEW w \in Workers, pc[w] = "writePng",
           \E new \in Overlays(png[Target(w)], cap[w]) : png' = Put(png, Target(w), new)
    PROVE  /\ Kept' = Kept \cup {cap[w]} /\ cap[w] \notin Kept
           /\ Target(w) \in DOMAIN png' /\ png'[Target(w)] = {cap[w]}
<1> DEFINE s == Target(w)
<1>1. s \in DOMAIN png /\ png[s] = {} /\ cap[w] \notin Kept /\ cap[w] \in Captures
  BY DEF LogInv, CallInLog, TypeOK
<1>2. png' = Put(png, s, {cap[w]})
  BY <1>1 DEF Overlays
<1>3. \A c \in Captures : c \in Kept' <=> c = cap[w] \/ \E t \in DOMAIN png : t # s /\ png[t] = {c}
  BY <1>2, PutKept
<1>4. \A c \in Captures : c \in Kept' <=> c = cap[w] \/ c \in Kept
  BY <1>1, <1>3 DEF Kept
<1>5. Kept \subseteq Captures /\ Kept' \subseteq Captures
  BY DEF Kept
<1>6. Kept' = Kept \cup {cap[w]}
  BY <1>1, <1>4, <1>5
<1> QED
  BY <1>1, <1>2, <1>6 DEF Put

(* What is known of the calls and the log holds at first.                   *)
LEMMA LogInit == Init => LogInv /\ Kept = {}
<1>1. Init => \A c \in Captures : c \notin Kept
  BY CapturesAssumption DEF Init, Kept
<1>2. Kept \subseteq Captures
  BY DEF Kept
<1>3. Init => \A w \in Workers : pc[w] = "idle"
  BY DEF Init
<1> QED
  BY <1>1, <1>2, <1>3 DEF LogInv, CallInLog, OneCallPerCapture

(* The step of one call leaves alone what is known of another one.          *)
LEMMA OtherCall ==
    ASSUME Unshared, TypeOK, LogInv, NEW w \in Workers, NEW v \in Workers, v # w,
           pc[w] # "idle", UNCHANGED <<savemode, cap>>,
           pc'[v] = pc[v], count'[v] = count[v],
           \A c \in Captures : c # cap[w] => verdict'[c] = verdict[c],
           Kept' \subseteq Kept \cup {cap[w]},
           \/ UNCHANGED png
           \/ \E X : png' = Put(png, Target(w), X)
    PROVE  CallInLog(v)'
<1> SUFFICES ASSUME pc[v] # "idle" PROVE CallInLog(v)'
  BY DEF CallInLog
<1>1. cap[v] # cap[w] /\ cap[v] \in Captures
  BY DEF LogInv, OneCallPerCapture, TypeOK
<1>2. Target(v) # Target(w) /\ Target(v)' = Target(v)
  BY <1>1, TargetsApart DEF Target
<1>3. /\ Target(v) \in DOMAIN png' <=> Target(v) \in DOMAIN png
      /\ Target(v) \in DOMAIN png => png'[Target(v)] = png[Target(v)]
  BY <1>2 DEF Put
<1>4. cap[v] \in Kept' => cap[v] \in Kept
  BY <1>1
<1>5. CallInLog(v)
  BY DEF LogInv
<1> QED
  BY <1>1, <1>2, <1>3, <1>4, <1>5 DEF CallInLog, Numbered

(* Every step keeps what is known of the calls and the log, and is a step   *)
(* of the log or leaves it as it is.                                        *)
LEMMA LogStep ==
    ASSUME Unshared, TypeOK, LogInv, [Next]_vars
    PROVE  LogInv' /\ [Log!Next]_Log!vars
<1> USE DEF LogInv
<1>a. /\ pc \in [Workers -> PC] /\ cap \in [Workers -> Captures]
      /\ verdict \in [Captures -> Verdicts] /\ count \in [Workers -> 0..MaxCount]
  BY DEF TypeOK
<1>b. UNCHANGED savemode /\ UNCHANGED Numbered
  BY DEF Next, SkipSave, BeginSave, Step, ProbePng, PngExists, ProbeJson, JsonExists, CreatePng,
         WritePng, CreateJson, WriteJson, Crash, Done, vars, Numbered
<1>c. UNCHANGED png => UNCHANGED Kept
  BY DEF Kept
<1>1. ASSUME NEW w \in Workers, NEW c \in Captures, SkipSave(w, c)
      PROVE  LogInv' /\ [Log!Next]_Log!vars
  <2>1. UNCHANGED <<png, pc, cap, count>> /\ verdict[c] = "waiting"
        /\ verdict' = [verdict EXCEPT ![c] = "skipped"]
    BY <1>1 DEF SkipSave
  <2>2. Log!Start(c)
    BY <2>1, <1>b, <1>c DEF Log!Start
  <2>3. \A v \in Workers : CallInLog(v)'
    BY <2>1, <1>a, <1>b, <1>c DEF CallInLog, Target
  <2>4. \A d \in Captures : verdict'[d] = "waiting" => verdict[d] = "waiting"
    BY <2>1, <1>a
  <2> QED
    BY <2>1, <2>2, <2>3, <2>4, <1>c DEF Log!Next, OneCallPerCapture
<1>2. ASSUME NEW w \in Workers, NEW c \in Captures, BeginSave(w, c)
      PROVE  LogInv' /\ [Log!Next]_Log!vars
  <2>1. /\ UNCHANGED png /\ verdict[c] = "waiting" /\ pc[w] = "idle" /\ savemode # 0
        /\ cap' = [cap EXCEPT ![w] = c] /\ count' = [count EXCEPT ![w] = 0]
    BY <1>2 DEF BeginSave
  <2>2. \/ /\ verdict' = [verdict EXCEPT ![c] = "running"]
           /\ pc' = [pc EXCEPT ![w] = IF savemode = 1 THEN "createPng" ELSE "probePng"]
        \/ verdict' = [verdict EXCEPT ![c] = "failed"] /\ UNCHANGED pc
    BY <1>2 DEF BeginSave, Goto
  <2>3. Log!Start(c)
    BY <2>1, <2>2, <1>b, <1>c DEF Log!Start
  <2>4. CallInLog(w)'
    BY <2>1, <2>2, <1>a, <1>b, <1>c DEF CallInLog, Numbered
  <2>5. ASSUME NEW v \in Workers, v # w PROVE CallInLog(v)'
    <3>1. pc'[v] = pc[v] /\ cap'[v] = cap[v] /\ Target(v)' = Target(v)
      BY <2>1, <2>2, <2>5, <1>a DEF Target
    <3>2. pc[v] # "idle" => cap[v] # c /\ verdict'[cap[v]] = verdict[cap[v]]
      BY <2>1, <2>2, <1>a DEF CallInLog
    <3> QED
      BY <2>1, <3>1, <3>2, <1>b, <1>c DEF CallInLog
  <2>6. OneCallPerCapture'
    <3>1. \A v \in Workers : pc[v] # "idle" => cap[v] # c
      BY <2>1 DEF CallInLog
    <3> QED
      BY <2>1, <2>2, <3>1, <1>a DEF OneCallPerCapture
  <2>7. \A d \in Captures : verdict'[d] = "waiting" => verdict[d] = "waiting"
    BY <2>2, <1>a
  <2> QED
    BY <2>1, <2>3, <2>4, <2>5, <2>6, <2>7, <1>c DEF Log!Next
<1>3. ASSUME NEW w \in Workers, Step(w), pc[w] # "idle", UNCHANGED cap,
             \A v \in Workers : v # w => pc'[v] = pc[v] /\ count'[v] = count[v],
             \A c \in Captures : c # cap[w] => verdict'[c] = verdict[c],
             verdict'[cap[w]] # "waiting",
             Kept' \subseteq Kept \cup {cap[w]},
             UNCHANGED png \/ \E X : png' = Put(png, Target(w), X),
             CallInLog(w)'
      PROVE  LogInv'
  <2>1. \A v \in Workers : v # w => CallInLog(v)'
    BY <1>3, <1>b, OtherCall
  <2>2. OneCallPerCapture'
    BY <1>3 DEF OneCallPerCapture
  <2>3. ASSUME NEW c \in Captures, verdict'[c] = "waiting" PROVE c \notin Kept'
    BY <1>3, <2>3
  <2> QED
    BY <1>3, <2>1, <2>2, <2>3
<1>4. ASSUME NEW w \in Workers, ProbePng(w) \/ ProbeJson(w)
      PROVE  LogInv' /\ [Log!Next]_Log!vars
  <2>1. /\ UNCHANGED <<png, verdict, cap>> /\ pc[w] \in {"probePng", "probeJson"}
        /\ \A v \in Workers : v # w => pc'[v] = pc[v] /\ count'[v] = count[v]
    BY <1>4, <1>a DEF ProbePng, ProbeJson, NextCandidate, Goto
  <2>2. /\ pc'[w] \in {"probePng", "probeJson", "createPng"}
        /\ pc'[w] \in {"probeJson", "createPng"} => Target(w)' = Target(w) /\ Target(w) \notin DOMAIN png
    <3>1. CASE ProbePng(w)
      BY <3>1, <1>a DEF ProbePng, PngExists, NextCandidate, Goto, Target
    <3>2. CASE ProbeJson(w)
      BY <3>2, <1>a DEF ProbeJson, JsonExists, NextCandidate, Goto, Target, CallInLog
    <3> QED
      BY <1>4, <3>1, <3>2
  <2>3. CallInLog(w) /\ cap[w] \in Captures
    BY <1>a
  <2>4. CallInLog(w)'
    BY <2>1, <2>2, <2>3, <1>b, <1>c DEF CallInLog
  <2>5. LogInv'
    BY <1>3, <1>4, <1>c, <2>1, <2>3, <2>4 DEF CallInLog, Step
  <2> QED
    BY <2>1, <2>5, <1>b, <1>c DEF Log!vars
<1>5. ASSUME NEW w \in Workers, CreatePng(w) \/ WritePng(w), UNCHANGED verdict
      PROVE  LogInv' /\ [Log!Next]_Log!vars
  <2>1. /\ UNCHANGED <<cap, count>> /\ Target(w)' = Target(w)
        /\ pc[w] \in {"createPng", "writePng"} /\ cap[w] \in Captures
    BY <1>5, <1>a DEF CreatePng, WritePng, Target
  <2>2. verdict[cap[w]] = "running" /\ cap[w] \notin Kept
    BY <2>1 DEF CallInLog
  <2>3. CASE CreatePng(w)
    <3>1. png' = Put(png, Target(w), {}) /\ pc' = [pc EXCEPT ![w] = "writePng"]
      BY <1>5, <2>2, <2>3, <1>a DEF CreatePng, Finish, Goto
    <3>2. Kept' = Kept \/ (~Numbered /\ \E d \in Kept : Kept' = Kept \ {d})
      BY <2>3, <3>1, CreateKept DEF CreatePng
    <3>3. Target(w) \in DOMAIN png' /\ png'[Target(w)] = {}
      BY <3>1 DEF Put
    <3>4. CallInLog(w)'
      BY <1>5, <2>1, <2>2, <3>1, <3>2, <3>3, <1>a DEF CallInLog
    <3>5. LogInv'
      BY <1>3, <1>5, <2>1, <2>2, <3>1, <3>2, <3>4, <1>a DEF Step
    <3>6. [Log!Next]_Log!vars
      BY <1>5, <2>1, <2>2, <3>2, <1>b DEF Log!Next, Log!Replace, Log!vars
    <3> QED
      BY <3>5, <3>6
  <2>4. CASE WritePng(w)
    <3>1. /\ \E new \in Overlays(png[Target(w)], cap[w]) : png' = Put(png, Target(w), new)
          /\ pc' = [pc EXCEPT ![w] = "createJson"]
      BY <1>5, <2>2, <2>4, <1>a DEF WritePng, Finish, Goto
    <3>2. /\ Kept' = Kept \cup {cap[w]}
          /\ Target(w) \in DOMAIN png' /\ png'[Target(w)] = {cap[w]}
      BY <2>4, <3>1, WriteKept DEF WritePng
    <3>3. CallInLog(w)'
      BY <1>5, <2>1, <2>2, <3>1, <3>2, <1>a DEF CallInLog
    <3>4. LogInv'
      BY <1>3, <1>5, <2>1, <2>2, <3>1, <3>2, <3>3, <1>a DEF Step
    <3>5. Log!Keep(cap[w])
      BY <1>5, <2>2, <3>2, <1>b DEF Log!Keep
    <3> QED
      BY <2>1, <3>4, <3>5 DEF Log!Next
  <2> QED
    BY <1>5, <2>3, <2>4
<1>6. ASSUME NEW w \in Workers, Step(w), pc[w] \in {"createPng", "writePng"},
             Finish(w, "failed"), UNCHANGED <<png, cap, count>>
      PROVE  LogInv' /\ [Log!Next]_Log!vars
  <2>1. /\ pc' = [pc EXCEPT ![w] = "idle"] /\ verdict' = [verdict EXCEPT ![cap[w]] = "failed"]
        /\ cap[w] \in Captures
    BY <1>6, <1>a DEF Finish, Goto
  <2>2. verdict[cap[w]] = "running" /\ cap[w] \notin Kept
    BY <1>6 DEF CallInLog
  <2>3. Log!Report(cap[w])
    BY <1>6, <2>1, <2>2, <1>b, <1>c DEF Log!Report
  <2>4. LogInv'
    BY <1>3, <1>6, <2>1, <1>a, <1>c DEF CallInLog
  <2> QED
    BY <2>1, <2>3, <2>4 DEF Log!Next
<1>7. ASSUME NEW w \in Workers, CreateJson(w) \/ WriteJson(w)
      PROVE  LogInv' /\ [Log!Next]_Log!vars
  <2>1. /\ UNCHANGED <<png, cap, count>> /\ Target(w)' = Target(w) /\ cap[w] \in Captures
        /\ pc[w] \in {"createJson", "writeJson"}
    BY <1>7, <1>a DEF CreateJson, WriteJson, Target
  <2>2. /\ verdict[cap[w]] = "running" /\ Target(w) \in DOMAIN png /\ png[Target(w)] = {cap[w]}
        /\ cap[w] \in Kept
    BY <2>1 DEF CallInLog, Kept
  <2>3. \/ UNCHANGED verdict /\ pc' = [pc EXCEPT ![w] = "writeJson"]
        \/ /\ \E u \in {"saved", "savedPngOnly"} : verdict' = [verdict EXCEPT ![cap[w]] = u]
           /\ pc' = [pc EXCEPT ![w] = "idle"]
    BY <1>7 DEF CreateJson, WriteJson, SidecarFails, Finish, Goto
  <2>4. CallInLog(w)'
    BY <2>1, <2>2, <2>3, <1>a DEF CallInLog
  <2>5. LogInv'
    BY <1>3, <1>7, <2>1, <2>2, <2>3, <2>4, <1>a, <1>c DEF Step
  <2>6. UNCHANGED <<verdict, Kept, Numbered>> \/ Log!Report(cap[w])
    BY <2>1, <2>2, <2>3, <1>b, <1>c DEF Log!Report
  <2> QED
    BY <2>1, <2>5, <2>6 DEF Log!Next, Log!vars
<1>8. CASE Crash
  <2>1. LogInv'
    BY <1>8, <1>a, <1>c DEF Crash, CallInLog, OneCallPerCapture
  <2>2. Log!Crash
    BY <1>8, <1>b, <1>c DEF Crash, Log!Crash
  <2> QED
    BY <2>1, <2>2 DEF Log!Next
<1>9. CASE UNCHANGED vars
  <2>1. UNCHANGED <<pc, cap, count, verdict, png>>
    BY <1>9 DEF vars
  <2>2. LogInv'
    BY <2>1, <1>b, <1>c DEF CallInLog, OneCallPerCapture, Target
  <2> QED
    BY <2>1, <2>2, <1>b, <1>c DEF Log!vars
<1>10. ASSUME NEW w \in Workers, CreatePng(w) \/ WritePng(w)
       PROVE  LogInv' /\ [Log!Next]_Log!vars
  BY <1>5, <1>6, <1>10 DEF CreatePng, WritePng, Step
<1> QED
  BY <1>1, <1>2, <1>4, <1>7, <1>8, <1>9, <1>10 DEF Next, Step, Done

(* With one thread, or with captures that have no candidate name in common, *)
(* the directory is a log of captures: a save that is reported is in it, it  *)
(* only grows when names are numbered, and when they are not a capture is    *)
(* replaced only by one that is being saved.                                *)
THEOREM DirectoryIsLog ==
    ASSUME Unshared
    PROVE  Spec => ImplementsLog
<1>1. Init => TypeOK /\ OpenFilesExist /\ LogInv /\ Log!Init
  BY TypeInit, LogInit DEF Init, Log!Init, Numbered
<1>2. TypeOK /\ OpenFilesExist /\ LogInv /\ [Next]_vars
        => (TypeOK /\ OpenFilesExist /\ LogInv)' /\ [Log!Next]_Log!vars
  BY TypeStep, LogStep
<1> QED
  BY <1>1, <1>2, PTL DEF Spec, ImplementsLog, Log!Spec
=============================================================================
