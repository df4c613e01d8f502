-------------------------------- MODULE Host --------------------------------
(***************************************************************************)
(* The process and what outlives it: start-up (cmd/server/main.go), the    *)
(* migrations and the signing secret (internal/store/store.go), the        *)
(* organizer's account and logins (internal/store/organizer.go,            *)
(* internal/web/auth.go) and the nightly backups.  The process may stop    *)
(* between any two steps and is started again, possibly as another version *)
(* with another environment.                                               *)
(*                                                                         *)
(*   stage      where start-up is, "serving" once it is done               *)
(*   shipped    the migrations of the version that is deployed             *)
(*   env        ORGANIZER_PASSWORD, "none" if it is not set                *)
(*   schema     the migrations whose statements the database has seen      *)
(*   applied    those it has a row of schema_migration for                 *)
(*   organizer  the password of the account, "none" before there is one    *)
(*   changes    new passwords that were let in but are not stored yet      *)
(*   chosen     the password the organizer set last, history               *)
(*   secret     the stored signing secret, 0 if there is none; key is the  *)
(*              one the process uses                                       *)
(*   logins     the secrets that unexpired login cookies are signed with   *)
(*   files      day -> the snapshot named after it and when it was written *)
(*   job        the backup that is running                                 *)
(*   due        the backup loop has a run to do                            *)
(*   now        the day                                                    *)
(*   faults     stops and disk failures so far                             *)
(***************************************************************************)
EXTENDS Integers, FiniteSets

CONSTANTS
    Migrations,  \* migrations of the newest version
    Passwords,   \* what the organizer may choose
    Keep,        \* BackupKeepFor, in days
    Horizon,     \* bound: the last day
    FaultLimit   \* bound: stops and disk failures

ASSUME HostAssumption ==
    /\ Migrations \in Nat \ {0} /\ "none" \notin Passwords
    /\ Keep \in Nat \ {0} /\ Horizon \in Nat /\ FaultLimit \in Nat

VARIABLES stage, shipped, env, schema, applied, organizer, changes, chosen,
          secret, key, logins, files, job, due, now, faults

database == <<schema, applied>>
deployed == <<shipped, env>>
account == <<organizer, changes, chosen>>
session == <<secret, key, logins>>
backups == <<files, job, due>>
vars == <<stage, deployed, database, account, session, backups, now, faults>>

Days == 0 .. Horizon
Absent == [state |-> "none", written |-> 0]
Idle == [step |-> "idle", day |-> 0, cutoff |-> 0]
Whole == {d \in Days : files[d].state = "whole"}

TypeOK ==
    /\ stage \in {"down", "migrate", "organizer", "secret", "serving"}
    /\ shipped \in 1 .. Migrations
    /\ env \in Passwords \cup {"none"}
    /\ \E n \in 0 .. Migrations : schema = 1 .. n /\ applied = 1 .. n
    /\ stage = "serving" => shipped \in schema /\ organizer # "none"
    /\ organizer \in Passwords \cup {"none"} /\ chosen \in Passwords \cup {"none"}
    /\ changes \subseteq Passwords
    /\ secret \in 0 .. FaultLimit + 1 /\ key \in 0 .. FaultLimit + 1
    /\ logins \subseteq 1 .. FaultLimit + 1
    /\ files \in [Days -> [state : {"none", "partial", "whole"}, written : Days]]
    /\ job \in [step : {"idle", "remove", "write", "finish", "prune"},
                day : Days, cutoff : -Keep .. Horizon]
    /\ due \in BOOLEAN /\ now \in Days /\ faults \in 0 .. FaultLimit

Init ==
    /\ stage = "down"
    /\ shipped \in 1 .. Migrations /\ env \in Passwords \cup {"none"}
    /\ schema = {} /\ applied = {}
    /\ organizer = "none" /\ changes = {} /\ chosen = "none"
    /\ secret = 0 /\ key = 0 /\ logins = {}
    /\ files = [d \in Days |-> Absent] /\ job = Idle /\ due = FALSE
    /\ now = 0 /\ faults = 0

-----------------------------------------------------------------------------
(* Start-up *)

(* The container is started, and again whenever it has ended. *)
Start ==
    /\ stage = "down"
    /\ stage' = "migrate"
    /\ UNCHANGED <<deployed, database, account, session, backups, now, faults>>

(* Another version, older or newer, or another environment. *)
Deploy(v, password) ==
    /\ stage = "down"
    /\ shipped' = v /\ env' = password
    /\ UNCHANGED <<stage, database, account, session, backups, now, faults>>

Pending == (1 .. shipped) \ applied

(* A variant that records a migration after its transaction. *)
Migrate_RecordsAfter ==
    /\ stage = "migrate" /\ Pending # {}
    /\ LET m == CHOOSE n \in Pending : \A k \in Pending : n <= k
       IN  IF m \in schema THEN stage' = "down" /\ UNCHANGED <<schema, applied>>
           ELSE schema' = schema \cup {m} /\ UNCHANGED <<applied, stage>>
    /\ UNCHANGED <<deployed, account, session, backups, now, faults>>

(* migrate: one transaction for the statements of a migration and its record.
   Statements the database has seen fail, and start-up with them. *)
Migrate ==
    /\ stage = "migrate" /\ Pending # {}
    /\ LET m == CHOOSE n \in Pending : \A k \in Pending : n <= k
       IN  IF m \in schema THEN stage' = "down" /\ UNCHANGED <<schema, applied>>
           ELSE /\ schema' = schema \cup {m} /\ applied' = applied \cup {m}
                /\ UNCHANGED stage
    /\ UNCHANGED <<deployed, account, session, backups, now, faults>>

Migrated ==
    /\ stage = "migrate" /\ Pending = {}
    /\ stage' = "organizer"
    /\ UNCHANGED <<deployed, database, account, session, backups, now, faults>>

(* A variant that requires the password on every boot. *)
EnsureOrganizer_Requires ==
    /\ stage = "organizer"
    /\ stage' = IF env = "none" THEN "down" ELSE "secret"
    /\ organizer' = IF organizer = "none" THEN env ELSE organizer
    /\ chosen' = organizer'
    /\ UNCHANGED <<deployed, database, changes, session, backups, now, faults>>

(* EnsureOrganizer: the account is made once, and cannot be without a password;
   later boots leave the password alone. *)
EnsureOrganizer ==
    /\ stage = "organizer"
    /\ stage' = IF organizer = "none" /\ env = "none" THEN "down" ELSE "secret"
    /\ IF organizer = "none" THEN organizer' = env /\ chosen' = env
       ELSE UNCHANGED <<organizer, chosen>>
    /\ UNCHANGED <<deployed, database, changes, session, backups, now, faults>>

(* A variant that draws a secret on every boot. *)
MetaOrCreate_Draws ==
    /\ stage = "secret"
    /\ stage' = "serving"
    /\ secret' = faults + 1 /\ key' = secret' /\ due' = TRUE
    /\ UNCHANGED <<deployed, database, account, logins, files, job, now, faults>>

(* web.New: the stored secret, or one drawn now; every boot draws another.
   The backup loop starts with a run. *)
MetaOrCreate ==
    /\ stage = "secret"
    /\ stage' = "serving"
    /\ secret' = IF secret = 0 THEN faults + 1 ELSE secret
    /\ key' = secret' /\ due' = TRUE
    /\ UNCHANGED <<deployed, database, account, logins, files, job, now, faults>>

(* The process is killed, crashes or is shut down. *)
Stop ==
    /\ stage # "down" /\ faults < FaultLimit
    /\ stage' = "down"
    /\ changes' = {} /\ key' = 0 /\ job' = Idle /\ due' = FALSE
    /\ faults' = faults + 1
    /\ UNCHANGED <<deployed, database, organizer, chosen, secret, logins, files, now>>

-----------------------------------------------------------------------------
(* The organizer *)

(* handleLogin and setSession, with the right password. *)
Login ==
    /\ stage = "serving"
    /\ logins' = logins \cup {key}
    /\ UNCHANGED <<stage, deployed, database, account, secret, key, backups, now, faults>>

(* handleSettingsSave: with the current password, read before ... *)
CheckPassword(current, new) ==
    /\ stage = "serving" /\ current = organizer
    /\ changes' = changes \cup {new}
    /\ UNCHANGED <<stage, deployed, database, organizer, chosen, session, backups, now, faults>>

(* ... SetOrganizerPassword stores the new one. *)
SetOrganizerPassword(new) ==
    /\ stage = "serving" /\ new \in changes
    /\ changes' = changes \ {new}
    /\ organizer' = new /\ chosen' = new
    /\ UNCHANGED <<stage, deployed, database, session, backups, now, faults>>

-----------------------------------------------------------------------------
(* Backups *)

(* The ticker: a day later there is another run to do. *)
Tick ==
    /\ now < Horizon
    /\ now' = now + 1
    /\ due' = (due \/ stage = "serving")
    /\ UNCHANGED <<stage, deployed, database, account, session, files, job, faults>>

others == <<stage, deployed, database, account, session, now>>

(* backupOnce, named after today. *)
BackupOnce ==
    /\ stage = "serving" /\ due /\ job.step = "idle"
    /\ job' = [step |-> "remove", day |-> now, cutoff |-> 0]
    /\ due' = FALSE
    /\ UNCHANGED <<others, files, faults>>

(* A variant that leaves a file of the same name to VACUUM INTO. *)
RemoveSameDay_Not ==
    /\ job.step = "remove"
    /\ job' = [job EXCEPT !.step = "write"]
    /\ UNCHANGED <<others, files, due, faults>>

RemoveSameDay ==
    /\ job.step = "remove"
    /\ files' = [files EXCEPT ![job.day] = Absent]
    /\ job' = [job EXCEPT !.step = "write"]
    /\ UNCHANGED <<others, due, faults>>

(* VACUUM INTO refuses to overwrite; it fills the file it makes ... *)
VacuumInto ==
    /\ job.step = "write"
    /\ IF files[job.day].state = "none"
       THEN /\ files' = [files EXCEPT ![job.day] = [state |-> "partial", written |-> now]]
            /\ job' = [job EXCEPT !.step = "finish"]
       ELSE job' = Idle /\ UNCHANGED files
    /\ UNCHANGED <<others, due, faults>>

(* ... to the end, after which old files may go ... *)
Written ==
    /\ job.step = "finish"
    /\ files' = [files EXCEPT ![job.day] = [state |-> "whole", written |-> now]]
    /\ job' = [job EXCEPT !.step = "prune", !.cutoff = now - Keep]
    /\ UNCHANGED <<others, due, faults>>

(* A variant that prunes although the backup failed. *)
VacuumFails_Prunes ==
    /\ job.step \in {"write", "finish"} /\ faults < FaultLimit
    /\ job' = [job EXCEPT !.step = "prune", !.cutoff = now - Keep]
    /\ faults' = faults + 1
    /\ UNCHANGED <<others, files, due>>

(* ... or not: the disk is full, and this run is over. *)
VacuumFails ==
    /\ job.step \in {"write", "finish"} /\ faults < FaultLimit
    /\ job' = Idle
    /\ faults' = faults + 1
    /\ UNCHANGED <<others, files, due>>

Old == {d \in Days : files[d].state # "none" /\ files[d].written <= job.cutoff}

Prune(d) ==
    /\ job.step = "prune" /\ d \in Old
    /\ files' = [files EXCEPT ![d] = Absent]
    /\ UNCHANGED <<others, job, due, faults>>

Pruned ==
    /\ job.step = "prune" /\ Old = {}
    /\ job' = Idle
    /\ UNCHANGED <<others, files, due, faults>>

-----------------------------------------------------------------------------
StartUp == Start \/ Migrate \/ Migrated \/ EnsureOrganizer \/ MetaOrCreate
Backup ==
    \/ BackupOnce \/ RemoveSameDay \/ VacuumInto \/ Written \/ Pruned
    \/ \E d \in Days : Prune(d)

Next ==
    \/ StartUp \/ Stop
    \/ \E v \in 1 .. Migrations, p \in Passwords \cup {"none"} : Deploy(v, p)
    \/ Login
    \/ \E p, q \in Passwords : CheckPassword(p, q)
    \/ \E p \in Passwords : SetOrganizerPassword(p)
    \/ Backup \/ VacuumFails \/ Tick

(* The container is restarted until it is stopped by hand, the process does
   not stop by itself in the middle, and the loop takes its runs. *)
Spec == Init /\ [][Next]_vars /\ WF_vars(StartUp) /\ WF_vars(Backup)

-----------------------------------------------------------------------------
(* "Logins survive restarts": a login that has not expired is good for the
   process that is running, however often it was stopped in between, in the
   middle of start-up too.  And a later boot "leaves the password alone, so the
   env var can be rotated out of the deployment without locking anyone out or
   resetting a changed password": the password is the one that the first boot
   or else the organizer set last, whatever environments said since. *)
AccountSurvives ==
    /\ stage = "serving" => logins \subseteq {key}
    /\ organizer = chosen

(* A whole snapshot goes in two ways only: it is of the day of the run, which
   writes it anew, or it is older than BackupKeepFor and a later one is there. *)
CopiesKept ==
    [][\A d \in Whole \ Whole' :
         \/ d = job.day
         \/ /\ files[d].written <= now - Keep
            /\ \E e \in Whole' : e > d]_vars

(* Once there is an account every start-up ends in serving, with or without a
   password in the environment and wherever earlier ones were cut off; and
   with a password there the first one does. *)
Serves ==
    /\ organizer # "none" ~> stage = "serving"
    /\ <>[](env # "none") => <>(stage = "serving")

(* "A stale same-named file would otherwise fail every run from here on": a
   run that fails or is cut off spoils no later one.  While nothing fails any
   more, a day that does not end before has its snapshot. *)
BackedUp ==
    \A d \in Days :
        stage = "serving" /\ due /\ faults = FaultLimit /\ now = d
          ~> files[d].state = "whole" \/ now # d
=============================================================================
