---------------------------- MODULE CaptureStore ----------------------------
(***************************************************************************)
(* The skins directory and the threads that save login captures into it:   *)
(* save_login_capture and next_available_stem of src/bedrock/skin.rs.      *)
(*                                                                         *)
(* The function is synchronous, but every session task of the runtime may  *)
(* call it, so two calls run on two runtime threads at once.  Each system  *)
(* call is one action: the two exists() probes of a candidate name, and    *)
(* the creation (which truncates) and the filling of each file.  The       *)
(* process may be killed between any two of them; the files stay.          *)
(*                                                                         *)
(* A file is abstracted to the set of captures whose bytes it holds: {c}   *)
(* is a complete file of c, {} a file that was created or truncated and    *)
(* not filled, {c, d} the overlay of two unsynchronised writers.           *)
(***************************************************************************)
EXTENDS Naturals, Sequences, FiniteSets

CONSTANTS Workers,     \* the runtime threads that may be saving at once
          Captures,    \* the parsed logins; each is saved by one call
          BaseName,    \* sanitized "<player>_<skin>" of a capture, as a sequence
          SaveModes,   \* the values of config.savemode considered
          OldPng,      \* the stems with a .png when the program is first started
          OldJson,     \* the stems with a .json then
          Foreign,     \* the owner of those older files
          MaxCount,    \* u32::MAX, where the counter of candidates saturates
          DiskMayFail, \* whether a system call may return an error
          MaxCrashes   \* bound on the number of times the process is killed

ASSUME BaseNameAssumption == BaseName \in [Captures -> Seq(Nat)]
ASSUME OldFilesAssumption == OldPng \subseteq Seq(Nat) /\ OldJson \subseteq Seq(Nat)
ASSUME CapturesAssumption == Captures # {} /\ Foreign \notin Captures
ASSUME CounterAssumption == SaveModes \subseteq 0..255 /\ MaxCount \in Nat \ {0}
ASSUME FaultAssumption == DiskMayFail \in BOOLEAN /\ MaxCrashes \in Nat

VARIABLES savemode, \* config.savemode, loaded once at startup
          png,      \* contents of <stem>.png, for the stems that have one
          json,     \* contents of <stem>.json
          pc,       \* where in save_login_capture each worker is
          cap,      \* the capture each worker is saving
          count,    \* the number of the candidate a worker considers
          verdict,  \* what became of each capture
          path,     \* the stem returned for a saved capture
          crashes

vars == <<savemode, png, json, pc, cap, count, verdict, path, crashes>>

Stems == Seq(Nat)
Contents == SUBSET (Captures \cup {Foreign})
PC == {"idle", "probePng", "probeJson", "createPng", "writePng",
       "createJson", "writeJson"}
Verdicts == {"waiting", "running", "skipped", "failed", "saved", "savedPngOnly", "lost"}

(* The name of the n-th candidate: the base itself, then base_1, base_2...  *)
(* A base may end in a number, so candidates of two bases may coincide.     *)
Stem(base, n) == IF n = 0 THEN base ELSE Append(base, n)

Target(w) == Stem(BaseName[cap[w]], count[w])

Saved(c) == verdict[c] \in {"saved", "savedPngOnly"}

(* The file system: a path that exists gets new contents, others keep theirs. *)
Put(files, s, contents) ==
    [t \in DOMAIN files \cup {s} |-> IF t = s THEN contents ELSE files[t]]

(* A write at offset 0 of a file that another writer has filled meanwhile   *)
(* replaces it when the new bytes are at least as long, and mixes otherwise *)
Overlays(old, c) == {{c}, {c} \cup old}

Init == /\ savemode \in SaveModes
        /\ png = [s \in OldPng |-> {Foreign}]
        /\ json = [s \in OldJson |-> {Foreign}]
        /\ pc = [w \in Workers |-> "idle"]
        /\ cap = [w \in Workers |-> CHOOSE c \in Captures : TRUE]
        /\ count = [w \in Workers |-> 0]
        /\ verdict = [c \in Captures |-> "waiting"]
        /\ path = [c \in Captures |-> <<>>]
        /\ crashes = 0

Goto(w, l) == pc' = [pc EXCEPT ![w] = l]

Finish(w, v) == /\ verdict' = [verdict EXCEPT ![cap[w]] = v]
                /\ Goto(w, "idle")

(***************************************************************************)
(* The steps of save_login_capture                                         *)
(***************************************************************************)
SkipSave(w, c) ==
    /\ pc[w] = "idle" /\ verdict[c] = "waiting" /\ savemode = 0
    /\ verdict' = [verdict EXCEPT ![c] = "skipped"]
    /\ UNCHANGED <<savemode, png, json, pc, cap, count, path, crashes>>

BeginSave(w, c) ==
    /\ pc[w] = "idle" /\ verdict[c] = "waiting" /\ savemode # 0
    /\ cap' = [cap EXCEPT ![w] = c]
    /\ count' = [count EXCEPT ![w] = 0]
    /\ \/ /\ verdict' = [verdict EXCEPT ![c] = "running"]
          /\ Goto(w, IF savemode = 1 THEN "createPng" ELSE "probePng")
       \/ /\ DiskMayFail                          \* create_dir_all fails
          /\ verdict' = [verdict EXCEPT ![c] = "failed"]
          /\ UNCHANGED pc
    /\ UNCHANGED <<savemode, png, json, path, crashes>>

NextCandidateStuck(w) ==      \* mutant: the counter is not incremented
    UNCHANGED count /\ Goto(w, "probePng")

NextCandidateSkips(w) ==      \* mutant: every other number is tried
    /\ count' = [count EXCEPT ![w] = IF @ + 1 < MaxCount THEN @ + 2 ELSE MaxCount]
    /\ Goto(w, "probePng")

NextCandidate(w) ==
    /\ count' = [count EXCEPT ![w] = IF @ < MaxCount THEN @ + 1 ELSE MaxCount]
    /\ Goto(w, "probePng")

PngNotLookedFor(w) == FALSE   \* mutant: only the sidecar is looked for

PngExists(w) == Target(w) \in DOMAIN png

ProbePng(w) ==
    /\ pc[w] = "probePng"
    /\ IF PngExists(w)
         THEN NextCandidate(w)
         ELSE Goto(w, "probeJson") /\ UNCHANGED count
    /\ UNCHANGED <<savemode, png, json, cap, verdict, path, crashes>>

JsonNotLookedFor(w) == FALSE  \* mutant: only the image is looked for

JsonExists(w) == Target(w) \in DOMAIN json

ProbeJson(w) ==
    /\ pc[w] = "probeJson"
    /\ IF JsonExists(w)
         THEN NextCandidate(w)
         ELSE Goto(w, "createPng") /\ UNCHANGED count
    /\ UNCHANGED <<savemode, png, json, cap, verdict, path, crashes>>

(* fs::write opens with create and truncate, then writes.  An error of the  *)
(* image is returned to the caller.                                         *)
CreatePng(w) ==
    /\ pc[w] = "createPng"
    /\ \/ /\ png' = Put(png, Target(w), {})
          /\ Goto(w, "writePng")
          /\ UNCHANGED verdict
       \/ DiskMayFail /\ Finish(w, "failed") /\ UNCHANGED png
    /\ UNCHANGED <<savemode, json, cap, count, path, crashes>>

WritePngErrorDropped(w) ==    \* mutant: an error of the image is only logged
    /\ pc[w] = "writePng"
    /\ \/ \E new \in Overlays(png[Target(w)], cap[w]) : png' = Put(png, Target(w), new)
       \/ DiskMayFail /\ UNCHANGED png
    /\ Goto(w, "createJson")
    /\ UNCHANGED <<savemode, json, cap, count, verdict, path, crashes>>

WritePng(w) ==
    /\ pc[w] = "writePng"
    /\ \/ /\ \E new \in Overlays(png[Target(w)], cap[w]) : png' = Put(png, Target(w), new)
          /\ Goto(w, "createJson")
          /\ UNCHANGED verdict
       \/ DiskMayFail /\ Finish(w, "failed") /\ UNCHANGED png
    /\ UNCHANGED <<savemode, json, cap, count, path, crashes>>

(* An error of the sidecar is only logged: the capture counts as saved.     *)
SidecarFails(w) ==
    /\ DiskMayFail
    /\ Finish(w, "savedPngOnly")
    /\ path' = [path EXCEPT ![cap[w]] = Target(w)]
    /\ UNCHANGED json

CreateJsonSkipped(w) ==       \* mutant: an existing sidecar is not replaced
    /\ pc[w] = "createJson"
    /\ \/ /\ Target(w) \in DOMAIN json
          /\ Finish(w, "saved")
          /\ path' = [path EXCEPT ![cap[w]] = Target(w)]
          /\ UNCHANGED json
       \/ /\ Target(w) \notin DOMAIN json
          /\ json' = Put(json, Target(w), {})
          /\ Goto(w, "writeJson")
          /\ UNCHANGED <<verdict, path>>
    /\ UNCHANGED <<savemode, png, cap, count, crashes>>

CreateJson(w) ==
    /\ pc[w] = "createJson"
    /\ \/ /\ json' = Put(json, Target(w), {})
          /\ Goto(w, "writeJson")
          /\ UNCHANGED <<verdict, path>>
       \/ SidecarFails(w)
    /\ UNCHANGED <<savemode, png, cap, count, crashes>>

WriteJson(w) ==
    /\ pc[w] = "writeJson"
    /\ \/ /\ \E new \in Overlays(json[Target(w)], cap[w]) : json' = Put(json, Target(w), new)
          /\ Finish(w, "saved")
          /\ path' = [path EXCEPT ![cap[w]] = Target(w)]
       \/ SidecarFails(w)
    /\ UNCHANGED <<savemode, png, cap, count, crashes>>

(* The process is killed: the calls in progress vanish, the files stay.     *)
Crash ==
    /\ crashes < MaxCrashes
    /\ crashes' = crashes + 1
    /\ pc' = [w \in Workers |-> "idle"]
    /\ verdict' = [c \in Captures |-> IF verdict[c] = "running" THEN "lost" ELSE verdict[c]]
    /\ UNCHANGED <<savemode, png, json, cap, count, path>>

Step(w) == \/ ProbePng(w) \/ ProbeJson(w) \/ CreatePng(w)
           \/ WritePng(w) \/ CreateJson(w) \/ WriteJson(w)

(* Every capture is settled and no process runs one: nothing is left to do. *)
Settled == \A c \in Captures : verdict[c] \notin {"waiting", "running"}
Done == Settled /\ UNCHANGED vars

Next == \/ \E w \in Workers, c \in Captures : SkipSave(w, c) \/ BeginSave(w, c)
        \/ \E w \in Workers : Step(w)
        \/ Crash
        \/ Done

(* A thread inside the function is scheduled by the operating system; that  *)
(* a session calls it at all is up to its client.                           *)
Spec == Init /\ [][Next]_vars /\ \A w \in Workers : WF_vars(Step(w))

(***************************************************************************)
(* Types                                                                   *)
(***************************************************************************)
TypeOK ==
    /\ savemode \in SaveModes
    /\ DOMAIN png \subseteq Stems /\ \A s \in DOMAIN png : png[s] \in Contents
    /\ DOMAIN json \subseteq Stems /\ \A s \in DOMAIN json : json[s] \in Contents
    /\ pc \in [Workers -> PC]
    /\ cap \in [Workers -> Captures]
    /\ count \in [Workers -> 0..MaxCount]
    /\ verdict \in [Captures -> Verdicts]
    /\ path \in [Captures -> Stems]
    /\ crashes \in 0..MaxCrashes

(***************************************************************************)
(* When the calls cannot meet on a name: one thread saves at a time, or no *)
(* two captures have a candidate in common.                                *)
(***************************************************************************)
OneWriter == \A v, w \in Workers : v = w
BasesApart ==
    \A c, d \in Captures : c # d =>
        \A m, n \in 0..MaxCount : Stem(BaseName[c], m) # Stem(BaseName[d], n)
Unshared == OneWriter \/ BasesApart

Numbered == savemode \notin {0, 1}

(* A capture reported as saved under a numbered name has its whole image at *)
(* the path that was returned, whatever was saved, killed or failed since.  *)
SavedIsOnDisk ==
    Numbered => \A c \in Captures :
        Saved(c) => path[c] \in DOMAIN png /\ png[path[c]] = {c}

(* The image and the sidecar of one name never come from two captures: the  *)
(* player data beside a skin is that player's (numbered names).             *)
PairFromOneCapture ==
    Numbered => \A s \in DOMAIN png \cap DOMAIN json : json[s] \subseteq png[s]

(* A capture returned as "base_n" found base, base_1 ... base_(n-1) taken:  *)
(* the numbers of the duplicates have no gap.                               *)
Taken == DOMAIN png \cup DOMAIN json
NumberingIsDense ==
    Numbered => \A c \in Captures : Saved(c) =>
        \E n \in 0..MaxCount :
            /\ path[c] = Stem(BaseName[c], n)
            /\ \A k \in 0..(n - 1) : Stem(BaseName[c], k) \in Taken

(* With numbered names a save never touches a file it did not create: all   *)
(* existing files keep their contents, but the unfilled one of the writer.  *)
BeingWritten == {Target(w) : w \in {v \in Workers : pc[v] \in {"writePng", "writeJson"}}}
OldFilesKept ==
    [][Numbered =>
        /\ \A s \in DOMAIN png : s \in DOMAIN png'
               /\ (png'[s] = png[s] \/ (png[s] = {} /\ s \in BeingWritten))
        /\ \A s \in DOMAIN json : s \in DOMAIN json'
               /\ (json'[s] = json[s] \/ (json[s] = {} /\ s \in BeingWritten))]_vars

(* A file that a call has opened is there.                                  *)
OpenFilesExist ==
    \A w \in Workers :
        /\ pc[w] = "writePng" => Target(w) \in DOMAIN png
        /\ pc[w] = "writeJson" => Target(w) \in DOMAIN json

(* Where each call stands: what it knows of its target name, and that no    *)
(* two calls save one capture.  With the three properties above this is the *)
(* inductive invariant of the numbered modes.                               *)
WriterKnows(w) ==
    /\ pc[w] # "idle" => verdict[cap[w]] = "running"
    /\ pc[w] # "idle" => savemode # 0
    /\ pc[w] \in {"probeJson", "createPng"} => Target(w) \notin DOMAIN png
    /\ pc[w] \in {"createPng", "writePng", "createJson"} => Target(w) \notin DOMAIN json
    /\ pc[w] = "writePng" => Target(w) \in DOMAIN png /\ png[Target(w)] = {}
    /\ pc[w] \in {"createJson", "writeJson"} =>
           Target(w) \in DOMAIN png /\ png[Target(w)] = {cap[w]}
    /\ pc[w] = "writeJson" => Target(w) \in DOMAIN json /\ json[Target(w)] = {}
OneCallPerCapture ==
    \A v, w \in Workers : v # w /\ pc[v] # "idle" /\ pc[w] # "idle" => cap[v] # cap[w]
SaveInv ==
    /\ Numbered => \A w \in Workers : WriterKnows(w)
    /\ Numbered => OneCallPerCapture
    /\ SavedIsOnDisk
    /\ PairFromOneCapture

(* With overwriting (savemode 1) and one writer, an image without its own   *)
(* sidecar, or an unfilled image, is left only by a save that is still      *)
(* running, was killed, or met a disk error.                                *)
TornOnlyWhenInterrupted ==
    savemode = 1 /\ OneWriter =>
        \A s \in DOMAIN png :
            /\ png[s] = {} => \E c \in Captures :
                   BaseName[c] = s /\ verdict[c] \in {"running", "lost", "failed"}
            /\ \A c \in Captures : c \in png[s] =>
                   \/ s \in DOMAIN json /\ json[s] = png[s]
                   \/ verdict[c] \in {"running", "lost", "savedPngOnly"}

(* A started save returns: the search for a free name does not go on for    *)
(* ever, unless every name the counter can number is taken.                 *)
Exhausted(c) == \A n \in 0..MaxCount : Stem(BaseName[c], n) \in Taken
SavesReturn ==
    \A c \in Captures : verdict[c] = "running" ~> verdict[c] # "running" \/ Exhausted(c)

(***************************************************************************)
(* The directory implements a log of captures, which only grows when names *)
(* are numbered.                                                           *)
(***************************************************************************)
Kept == {c \in Captures : \E s \in DOMAIN png : png[s] = {c}}
Log == INSTANCE CaptureLog WITH kept <- Kept, numbered <- Numbered
ImplementsLog == Log!Spec
=============================================================================
