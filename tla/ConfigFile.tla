----------------------------- MODULE ConfigFile -----------------------------
(***************************************************************************)
(* The config file of a script: LoadConfig when a context loads its root   *)
(* file, SaveConfig in ~Context, and safe_ofstream, which writes a         *)
(* temporary file and renames it over the old one.  The contexts debug the *)
(* same script, in the threads of a process that may be killed; which of   *)
(* them are at work at a time is ContextLife's.  A session is a context's  *)
(* from LoadConfig to SaveConfig, a file's content the session whose       *)
(* breakpoints it holds; the end tag that ~xml_oarchive writes after       *)
(* commit has closed the stream, and that no reader asks for, is left out. *)
(***************************************************************************)
EXTENDS Integers, FiniteSets

CONSTANTS
    Contexts,    (* contexts that debug the script                         *)
    MaxSessions  (* bound: sessions                                        *)

VARIABLES
    pc,       (* of each context: where it is in its session               *)
    session,  (* of each context: which session this is                    *)
    loaded,   (* of each context: whose breakpoints it began with          *)
    handle,   (* of each context: the file m_stream writes                 *)
    files,    (* contents of the files there are or were, by number        *)
    tmp,      (* m_tmpPath names this file, 0 if none                      *)
    target,   (* m_filePath names this file, 0 if none                     *)
    sessions, (* history: sessions so far                                  *)
    last,     (* history: the session that committed last                  *)
    lost      (* history: the disk was full when a buffer was written      *)

vars == <<pc, session, loaded, handle, files, tmp, target, sessions, last,
          lost>>

Content == [of : 0 .. MaxSessions, state : {"empty", "part", "whole", "mixed"}]

TypeOK ==
    /\ pc \in [Contexts -> {"off", "running", "opened", "closed", "removed"}]
    /\ session \in [Contexts -> 0 .. MaxSessions]
    /\ loaded \in [Contexts -> 0 .. MaxSessions]
    /\ \A f \in DOMAIN files : files[f] \in Content
    /\ handle \in [Contexts -> DOMAIN files \cup {0}]
    /\ tmp \in DOMAIN files \cup {0}
    /\ target \in DOMAIN files \cup {0}
    /\ sessions \in 0 .. MaxSessions
    /\ last \in 0 .. MaxSessions
    /\ lost \in BOOLEAN

Init ==
    /\ pc = [c \in Contexts |-> "off"]
    /\ session = [c \in Contexts |-> 0]
    /\ loaded = [c \in Contexts |-> 0]
    /\ handle = [c \in Contexts |-> 0]
    /\ files = [f \in {} |-> 0]
    /\ tmp = 0
    /\ target = 0
    /\ sessions = 0
    /\ last = 0
    /\ lost = FALSE

-----------------------------------------------------------------------------
At(c, from, to) == pc[c] = from /\ pc' = [pc EXCEPT ![c] = to]

Loadable == target

(* LoadConfig.  A file that is not there, or that the archive cannot read,  *)
(* leaves the list as it is: empty.                                         *)
LoadConfig(c) ==
    /\ At(c, "off", "running")
    /\ sessions < MaxSessions
    /\ sessions' = sessions + 1
    /\ session' = [session EXCEPT ![c] = sessions + 1]
    /\ loaded' = [loaded EXCEPT ![c] =
          IF Loadable # 0 /\ files[Loadable].state = "whole"
          THEN files[Loadable].of ELSE 0]
    /\ UNCHANGED <<handle, files, tmp, target, last, lost>>

(* safe_ofstream::open takes filename + ".tmp", which may exist. *)
Opened(name) == name

NewTmp(c) ==
    \E f \in {IF Opened(tmp) # 0 THEN Opened(tmp)
              ELSE Cardinality(DOMAIN files) + 1} :
       /\ files' = [g \in DOMAIN files \cup {f} |->
             IF g = f THEN [of |-> session[c], state |-> "empty"]
             ELSE files[g]]
       /\ handle' = [handle EXCEPT ![c] = f]
       /\ tmp' = f

(* Mutant of Open: the old file makes room first. *)
OpenRemoving(c) ==
    /\ At(c, "running", "opened")
    /\ NewTmp(c)
    /\ target' = 0
    /\ UNCHANGED <<session, loaded, sessions, last, lost>>

Open(c) ==
    /\ At(c, "running", "opened")
    /\ NewTmp(c)
    /\ UNCHANGED <<session, loaded, target, sessions, last, lost>>

(* Writing over what another context has written to the same file leaves a  *)
(* mixture of the two.                                                      *)
Written(c, state) ==
    files' = [files EXCEPT ![handle[c]] =
        IF @.state = "mixed" \/ (@.of # session[c] /\ @.state # "empty")
        THEN [@ EXCEPT !.state = "mixed"]
        ELSE [of |-> session[c], state |-> state]]

(* A buffer of the stream fills up while the archive is written. *)
Write(c) ==
    /\ pc[c] = "opened"
    /\ files[handle[c]].state # "part"
    /\ Written(c, "part")
    /\ UNCHANGED <<pc, session, loaded, handle, tmp, target, sessions, last,
                   lost>>

(* commit: m_stream.close().  The stream does not throw: what is left in    *)
(* its buffer may be lost without notice.                                   *)
Close(c) ==
    /\ At(c, "opened", "closed")
    /\ \E fits \in BOOLEAN :
          /\ Written(c, IF fits THEN "whole" ELSE "part")
          /\ lost' = (lost \/ ~fits)
    /\ UNCHANGED <<session, loaded, handle, tmp, target, sessions, last>>

(* commit: remove(m_filePath), if the temporary file is still there. *)
RemoveTarget(c) ==
    /\ At(c, "closed", "removed")
    /\ tmp # 0
    /\ target' = 0
    /\ UNCHANGED <<session, loaded, handle, files, tmp, sessions, last, lost>>

NothingToCommit(c) ==
    /\ At(c, "closed", "off")
    /\ tmp = 0
    /\ handle' = [handle EXCEPT ![c] = 0]
    /\ UNCHANGED <<session, loaded, files, tmp, target, sessions, last, lost>>

(* Mutant of Renamed: the names are the wrong way round. *)
RenamedBack == [target |-> target, tmp |-> target]

(* rename, which throws if another context has renamed the file.            *)
Renamed ==
    IF tmp # 0 THEN [target |-> tmp, tmp |-> 0]
    ELSE [target |-> target, tmp |-> tmp]

(* commit: rename. *)
Rename(c) ==
    /\ At(c, "removed", "off")
    /\ target' = Renamed.target
    /\ tmp' = Renamed.tmp
    /\ last' = IF tmp # 0 THEN session[c] ELSE last
    /\ handle' = [handle EXCEPT ![c] = 0]
    /\ UNCHANGED <<session, loaded, files, sessions, lost>>

(* ~Context: SaveConfig. *)
SaveConfig(c) ==
    \/ Open(c) \/ Write(c) \/ Close(c)
    \/ RemoveTarget(c) \/ NothingToCommit(c) \/ Rename(c)

(* The process is killed; a file it was writing stays as it is. *)
Crash ==
    /\ pc' = [c \in Contexts |-> "off"]
    /\ handle' = [c \in Contexts |-> 0]
    /\ UNCHANGED <<session, loaded, files, tmp, target, sessions, last, lost>>

Next ==
    \/ \E c \in Contexts : LoadConfig(c) \/ SaveConfig(c)
    \/ Crash

Spec == Init /\ [][Next]_vars

=============================================================================
