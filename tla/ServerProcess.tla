---------------------------- MODULE ServerProcess ----------------------------
(***************************************************************************)
(* The life of the server process (cmd/probe-server): main loads or makes  *)
(* the certificate authority (certificates.go), publishes its certificate  *)
(* for Caddy and serves, while the maintenance goroutine it started first  *)
(* writes the daily backups (store.go).  Docker restarts the process       *)
(* whenever it ends.  SIGTERM is a crash here: main returns as soon as the *)
(* listener is closed, and waits neither for handlers nor for maintenance. *)
(* An operator X_Y is X with a plausible bug: Next never uses it.          *)
(***************************************************************************)
EXTENDS Integers, FiniteSetsExt

CONSTANTS
    KeyPairs, None,   \* a key pair and its certificate, told apart by the pair
    Keep,             \* backups kept, 7
    MaxDay            \* bound on the days, for TLC

ASSUME ServerProcessAssumption ==
    None \notin KeyPairs /\ Keep \in Nat \ {0} /\ MaxDay \in Nat

VARIABLES
    files,     \* the private directory: [key, cert]
    public,    \* agent-ca.crt in the directory shared with Caddy
    caddy,     \* the authority Caddy trusts, read when it starts; None: it is down
    proc,      \* main: [pc, key, cert], the authority in memory
    day,
    maint,     \* the maintenance goroutine: [pc, due]
    backups,   \* probe-<day>.db: day -> is it a whole copy?
    taken      \* history: the days a backup was finished

authorityVars == <<files, public, caddy, proc>>
backupVars == <<day, maint, backups, taken>>
vars == <<files, public, caddy, proc, day, maint, backups, taken>>

Down == [pc |-> "down", key |-> None, cert |-> None]

Init ==
    /\ files = [key |-> None, cert |-> None]
    /\ public = None /\ caddy = None
    /\ proc = Down
    /\ day = 0
    /\ maint = [pc |-> "off", due |-> 0]
    /\ backups = << >> /\ taken = {}

-----------------------------------------------------------------------------
Main(pc) == proc' = [proc EXCEPT !.pc = pc]

(* The store is opened and maintenance started before the authority is     *)
(* loaded.                                                                 *)
Start ==
    /\ proc.pc = "down"
    /\ Main("authority")
    /\ maint' = [pc |-> "wait", due |-> day]
    /\ UNCHANGED <<files, public, caddy, day, backups, taken>>

(* main returns on an error, or the process is killed. *)
Exit ==
    /\ proc.pc # "down"
    /\ proc' = Down
    /\ maint' = [pc |-> "off", due |-> day]
    /\ UNCHANGED <<files, public, caddy, day, backups, taken>>

(* LoadOrCreateCertificateAuthority: both files, or neither; the third     *)
(* case has no action but Exit.                                            *)
LoadAuthority_AsPublished ==
    /\ proc.pc = "authority"
    /\ files.key # None /\ files.cert # None
    /\ proc' = [pc |-> "serve", key |-> files.key, cert |-> files.cert]
    /\ UNCHANGED <<files, public, caddy, backupVars>>
LoadAuthority ==
    /\ proc.pc = "authority"
    /\ files.key # None /\ files.cert # None
    /\ proc' = [pc |-> "publish", key |-> files.key, cert |-> files.cert]
    /\ UNCHANGED <<files, public, caddy, backupVars>>

(* A new pair is unlike any that is still around. *)
Fresh == KeyPairs \ {files.key, files.cert, public, caddy}

DrawAuthority_PublishedFirst ==
    /\ proc.pc = "authority"
    /\ files.key = None /\ files.cert = None
    /\ \E k \in Fresh : proc' = [pc |-> "writeKey", key |-> k, cert |-> k] /\ public' = k
    /\ UNCHANGED <<files, caddy, backupVars>>
DrawAuthority ==
    /\ proc.pc = "authority"
    /\ files.key = None /\ files.cert = None
    /\ \E k \in Fresh : proc' = [pc |-> "writeKey", key |-> k, cert |-> k]
    /\ UNCHANGED <<files, public, caddy, backupVars>>

(* writePrivateFile and publishAgentCAPublicCertificate rename a finished  *)
(* temporary file over the old one.                                        *)
WriteKey ==
    /\ proc.pc = "writeKey"
    /\ files' = [files EXCEPT !.key = proc.key]
    /\ Main("writeCert")
    /\ UNCHANGED <<public, caddy, backupVars>>

WriteCert ==
    /\ proc.pc = "writeCert"
    /\ files' = [files EXCEPT !.cert = proc.cert]
    /\ Main("publish")
    /\ UNCHANGED <<public, caddy, backupVars>>

Publish ==
    /\ proc.pc = "publish"
    /\ public' = proc.cert
    /\ Main("serve")
    /\ UNCHANGED <<files, caddy, backupVars>>

Serve ==
    /\ proc.pc = "serve"
    /\ Main("serving")
    /\ UNCHANGED <<files, public, caddy, backupVars>>

(* Caddy waits for the certificate before it starts, and may restart.      *)
CaddyStarts ==
    /\ caddy = None /\ public # None
    /\ caddy' = public
    /\ UNCHANGED <<files, public, proc, backupVars>>

CaddyStops ==
    /\ caddy # None
    /\ caddy' = None
    /\ UNCHANGED <<files, public, proc, backupVars>>

-----------------------------------------------------------------------------
(* runMaintenance: at start and then every 24 hours.  No run is under way  *)
(* at midnight: its file is named after the day it began, whenever it ends. *)
Maintenance(pc) == maint' = [maint EXCEPT !.pc = pc]
Without(d) == [e \in DOMAIN backups \ {d} |-> backups[e]]
With(d, whole) == [e \in DOMAIN backups \cup {d} |-> IF e = d THEN whole ELSE backups[e]]

NextDay ==
    /\ maint.pc \in {"off", "wait"}
    /\ day < MaxDay
    /\ day' = day + 1
    /\ UNCHANGED <<authorityVars, maint, backups, taken>>

MaintainSamples ==
    /\ maint.pc = "wait" /\ day >= maint.due
    /\ maint' = [pc |-> "remove", due |-> day + 1]
    /\ UNCHANGED <<authorityVars, day, backups, taken>>

(* BackupTo: a file of this day makes way ... *)
RemoveDestination ==
    /\ maint.pc = "remove"
    /\ backups' = Without(day)
    /\ Maintenance("vacuum")
    /\ UNCHANGED <<authorityVars, day, taken>>

(* ... for VACUUM INTO, which writes it under its final name. *)
VacuumInto_NamedByNextRun ==
    /\ maint.pc = "vacuum"
    /\ backups' = With(maint.due, FALSE)
    /\ Maintenance("copy")
    /\ UNCHANGED <<authorityVars, day, taken>>
VacuumInto ==
    /\ maint.pc = "vacuum"
    /\ backups' = With(day, FALSE)
    /\ Maintenance("copy")
    /\ UNCHANGED <<authorityVars, day, taken>>

BackedUp ==
    /\ maint.pc = "copy"
    /\ backups' = With(day, TRUE)
    /\ taken' = taken \cup {day}
    /\ Maintenance("rotate")
    /\ UNCHANGED <<authorityVars, day>>

(* BackupDaily: the names sort by day, whole copy or not. *)
FirstBackup_Newest == Max(DOMAIN backups)
FirstBackup == Min(DOMAIN backups)

RemoveOldBackup ==
    /\ maint.pc = "rotate"
    /\ Cardinality(DOMAIN backups) > Keep
    /\ backups' = Without(FirstBackup)
    /\ UNCHANGED <<authorityVars, day, maint, taken>>

Rotated ==
    /\ maint.pc = "rotate"
    /\ Cardinality(DOMAIN backups) <= Keep
    /\ Maintenance("wait")
    /\ UNCHANGED <<authorityVars, day, backups, taken>>

(* A statement or a file operation fails: the run is over until tomorrow;  *)
(* SQLite may have removed what it copied.                                 *)
MaintenanceFails ==
    /\ maint.pc \in {"remove", "vacuum", "copy", "rotate"}
    /\ Maintenance("wait")
    /\ backups' \in {backups} \cup (IF maint.pc = "copy" THEN {Without(day)} ELSE {})
    /\ UNCHANGED <<authorityVars, day, taken>>

Next ==
    \/ Start \/ LoadAuthority \/ DrawAuthority \/ WriteKey \/ WriteCert
    \/ Publish \/ Serve \/ Exit
    \/ CaddyStarts \/ CaddyStops
    \/ NextDay \/ MaintainSamples \/ RemoveDestination \/ VacuumInto \/ BackedUp
    \/ RemoveOldBackup \/ Rotated \/ MaintenanceFails

(* Docker restarts both containers; a step of main that is reached again   *)
(* and again is not interrupted every time.                                *)
Fairness ==
    /\ WF_vars(Start) /\ WF_vars(CaddyStarts)
    /\ SF_vars(LoadAuthority) /\ SF_vars(DrawAuthority)
    /\ SF_vars(WriteKey) /\ SF_vars(WriteCert) /\ SF_vars(Publish) /\ SF_vars(Serve)

Spec == Init /\ [][Next]_vars /\ Fairness

-----------------------------------------------------------------------------
(* Every variable has its type; no backup is of a day that has not come.   *)
TypeOK ==
    /\ files \in [key : KeyPairs \cup {None}, cert : KeyPairs \cup {None}]
    /\ {public, caddy} \subseteq KeyPairs \cup {None}
    /\ proc \in [pc : {"down", "authority", "writeKey", "writeCert", "publish", "serve",
                       "serving"},
                 key : KeyPairs \cup {None}, cert : KeyPairs \cup {None}]
    /\ maint \in [pc : {"off", "wait", "remove", "vacuum", "copy", "rotate"}, due : Nat]
    /\ day \in Nat /\ maint.due <= day + 1
    /\ {taken, DOMAIN backups} \subseteq SUBSET (0 .. day)
    /\ backups \in [DOMAIN backups -> BOOLEAN]

(* While the server serves, a running Caddy trusts exactly the authority   *)
(* that signs, wherever earlier starts were cut short: no agent enrolled   *)
(* by one authority is refused under another (main.go, certificates.go).   *)
ProxyTrustsSigner ==
    proc.pc = "serving" => proc.key = proc.cert /\ public = proc.cert /\ caddy \in {None, proc.cert}

(* The server is up again and again, and so is its proxy, unless a start   *)
(* died between the two files of the authority: then every later start     *)
(* fails, and an operator has to remove the key.                           *)
HalfWritten == files.key # None /\ files.cert = None
ServerComesUp ==
    \/ <>[]HalfWritten
    \/ []<>(proc.pc = "serving") /\ []<>(caddy # None)

(* Whatever is cut short, a finished backup leaves the directory only when *)
(* its own day is backed up again or with Keep newer files behind it       *)
(* (BackupTo, BackupDaily).                                                *)
Whole(d) == d \in DOMAIN backups /\ backups[d]
OlderBackupsSurvive ==
    [][\A d \in DOMAIN backups :
         Whole(d) /\ ~Whole(d)' =>
             \/ d = day /\ maint.pc = "remove"
             \/ Cardinality({e \in DOMAIN backups : e > d}) >= Keep]_vars

(* README.md:185: the server "retains the latest seven files".  A restart  *)
(* removes the day's finished backup before the new copy succeeds.         *)
RetainsLatestBackups ==
    maint.pc = "wait" =>
        \A d \in taken : Whole(d) \/ Cardinality({e \in taken : e > d}) >= Keep
=============================================================================
