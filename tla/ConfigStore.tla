----------------------------- MODULE ConfigStore -----------------------------
(***************************************************************************)
(* The configuration file over the starts of the program: ConfigManager of *)
(* src/util/config.rs, called by main.  The file is read, completed from   *)
(* the defaults, normalised, and written again when that changed it; the   *)
(* user edits or deletes it while the program is down.  Any access to the  *)
(* file may fail, and the process may be killed between any two.           *)
(***************************************************************************)
EXTENDS ConfigText

CONSTANTS Texts,          \* what a user may have written before the first start
          Edits,          \* what a user may write later
          Protocols,      \* protocol numbers, 0 standing for "the latest"
          Ports,          \* port numbers
          Addresses,      \* the strings that parse as an address in front of a port
          Default,        \* Config::default()
          LatestProtocol, LatestVersion,
          Missing,        \* the value of a key that is left out
          Absent,         \* no file
          Torn,           \* a file truncated and not, or not all, written again
          Unreadable      \* what such a file and other nonsense parse as

Settings == [version : Seq(Chars), protocol : Protocols, port : Ports, bind_addr : Seq(Chars),
             savemode : Nat]

(* A text has a literal or a number for each key.                           *)
FileTexts == [version : Seq(Chars) \cup {Missing}, protocol : Protocols \cup {Missing},
              port : Ports \cup {Missing}, bind_addr : Seq(Chars) \cup {Missing},
              savemode : Nat \cup {Missing}]

ASSUME TextsAssumption == Texts \subseteq FileTexts /\ Edits \subseteq FileTexts
ASSUME DefaultAssumption ==
    /\ Default \in Settings /\ Default.savemode <= 2 /\ Default.protocol # 0
    /\ ~IsBlank(Default.version) /\ Default.bind_addr \in Addresses
ASSUME LatestAssumption ==
    /\ LatestProtocol \in Protocols \ {0} /\ LatestVersion \in Seq(Chars)
    /\ ~IsBlank(LatestVersion) /\ ~HasControl(LatestVersion)
ASSUME MarksAssumption ==
    /\ Missing \notin Seq(Chars) \cup Protocols \cup Ports \cup Nat
    /\ Absent \notin FileTexts /\ Torn \notin FileTexts \cup {Absent}
    /\ Unreadable \notin Settings

VARIABLES file,    \* config.jsonc
          pc,      \* where the program is
          config,  \* the configuration it has read
          wanted,  \* what the user's last edit asks for
          refused  \* why the last start was given up, or ""

vars == <<file, pc, config, wanted, refused>>

Init == /\ file \in Texts \cup {Absent}
        /\ pc = "down" /\ config = Default /\ refused = ""
        /\ wanted = file

(***************************************************************************)
(* Reading: serde_json fills missing keys from the defaults; one string it *)
(* cannot read spoils the file.                                            *)
(***************************************************************************)
OrDefault(value, key) == IF value = Missing THEN Default[key] ELSE value
StringOrDefault(literal, key) == IF literal = Missing THEN Default[key] ELSE Meaning(literal)

Parsed(f) ==
    CASE f = Absent -> Default
      [] f = Torn -> Unreadable
      [] OTHER ->
           LET read == [version   |-> StringOrDefault(f.version, "version"),
                        protocol  |-> OrDefault(f.protocol, "protocol"),
                        port      |-> OrDefault(f.port, "port"),
                        bind_addr |-> StringOrDefault(f.bind_addr, "bind_addr"),
                        savemode  |-> OrDefault(f.savemode, "savemode")]
           IN  IF NotAString \in {read.version, read.bind_addr} THEN Unreadable ELSE read

(* normalize_supported_version                                              *)
Capped(mode) == IF mode > 2 THEN 2 ELSE mode

NormalizedUncapped(c) ==        \* mutant: the branch that fills in forgets the savemode
    [c EXCEPT !.version = IF IsBlank(@) THEN LatestVersion ELSE @,
              !.protocol = IF @ = 0 THEN LatestProtocol ELSE @,
              !.savemode = IF IsBlank(c.version) \/ c.protocol = 0 THEN @ ELSE Capped(@)]

NormalizedAfresh(c) ==          \* mutant: the branch that fills in takes a default Config
    IF IsBlank(c.version) \/ c.protocol = 0
      THEN [Default EXCEPT !.version = LatestVersion, !.protocol = LatestProtocol]
      ELSE [c EXCEPT !.savemode = Capped(@)]

Normalized(c) ==
    [c EXCEPT !.version = IF IsBlank(@) THEN LatestVersion ELSE @,
              !.protocol = IF @ = 0 THEN LatestProtocol ELSE @,
              !.savemode = Capped(@)]

(* format_config_with_comments                                              *)
Formatted(c) == [c EXCEPT !.version = Literal(@), !.bind_addr = Literal(@),
                          !.savemode = Capped(@)]

(***************************************************************************)
(* load and save, and what main makes of the result                        *)
(***************************************************************************)
Refuse(why) == pc' = "down" /\ refused' = why

Start == /\ pc = "down"
         /\ pc' = "load" /\ refused' = ""
         /\ UNCHANGED <<file, config, wanted>>

(* create_dir_all, exists and read_to_string, and the parse of what was read. *)
Load == /\ pc = "load"
        /\ CASE file = Absent -> /\ config' = Default /\ pc' = "create"
                                 /\ UNCHANGED refused
             [] Parsed(file) = Unreadable -> Refuse("unreadable") /\ UNCHANGED config
             [] OTHER -> /\ config' = Normalized(Parsed(file))
                         /\ pc' = IF config' = Parsed(file) THEN "bind" ELSE "create"
                         /\ UNCHANGED refused
        /\ UNCHANGED <<file, wanted>>

(* fs::write truncates the file and then fills it.                          *)
Create == /\ pc = "create"
          /\ file' = Torn /\ pc' = "write"
          /\ UNCHANGED <<config, wanted, refused>>

Write == /\ pc = "write"
         /\ file' = Formatted(config) /\ pc' = "bind"
         /\ UNCHANGED <<config, wanted, refused>>

(* An error of any of these calls is returned by main.                      *)
DiskFails == /\ pc \in {"load", "create", "write"}
             /\ Refuse("disk")
             /\ UNCHANGED <<file, config, wanted>>

Bind == /\ pc = "bind"
        /\ IF config.bind_addr \in Addresses
             THEN pc' = "running" /\ UNCHANGED refused
             ELSE Refuse("address")
        /\ UNCHANGED <<file, config, wanted>>

(* Ctrl+C, or the process is killed.                                        *)
Stop == /\ pc # "down"
        /\ pc' = "down"
        /\ UNCHANGED <<file, config, wanted, refused>>

Edit == /\ pc = "down"
        /\ \E text \in Edits \cup {Absent} : file' = text /\ wanted' = text
        /\ refused' = ""
        /\ UNCHANGED <<pc, config>>

Next == Start \/ Load \/ Create \/ Write \/ DiskFails \/ Bind \/ Stop \/ Edit

Spec == Init /\ [][Next]_vars

(***************************************************************************)
(* Properties                                                              *)
(***************************************************************************)
TypeOK == /\ file \in FileTexts \cup {Absent, Torn}
          /\ pc \in {"down", "load", "create", "write", "bind", "running"}
          /\ config \in Settings
          /\ wanted \in FileTexts \cup {Absent}
          /\ refused \in {"", "disk", "unreadable", "address"}

(* load, over any number of starts, crashes and disk errors since the last  *)
(* edit: a start refuses the file only when a save was interrupted, when    *)
(* the user's text was no configuration, or when it holds a control         *)
(* character, which escape_json_string writes as it is; and what the user   *)
(* wrote last decides whether the address is one.                           *)
RefusalHasCause ==
    /\ refused = "unreadable" =>
          \/ file = Torn \/ Parsed(wanted) = Unreadable
          \/ HasControl(Parsed(wanted).version) \/ HasControl(Parsed(wanted).bind_addr)
    /\ refused = "address" => Parsed(wanted).bind_addr \notin Addresses

(* "Only a protocol value of 0 or an empty version is filled from the       *)
(* latest mapping" (README.md): whatever starts and crashes came before,    *)
(* the program runs with the settings the user wrote last, save mode        *)
(* limited, and with the defaults for the keys left out.                    *)
SettingsKept ==
    pc = "running" =>
        LET w == Parsed(wanted)
        IN  /\ config.port = w.port /\ config.bind_addr = w.bind_addr
            /\ config.protocol \in {w.protocol, LatestProtocol}
            /\ w.protocol # 0 => config.protocol = w.protocol
            /\ config.version = IF IsBlank(w.version) THEN LatestVersion ELSE w.version
            /\ config.savemode = Capped(w.savemode)

(* load and save: the program runs with what the file says, and the next    *)
(* start finds nothing to change in it; a string with a control character   *)
(* apart, as above.                                                         *)
RunsAsWritten ==
    /\ TypeOK
    /\ pc = "running" =>
          \/ Parsed(file) = config /\ Normalized(config) = config
          \/ HasControl(config.version) \/ HasControl(config.bind_addr)
=============================================================================
