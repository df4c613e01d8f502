----------------------------- MODULE HostProofs -----------------------------
(***************************************************************************)
(* Safety of the host for any number of migrations, passwords, days, stops *)
(* and disk failures.  The inductive invariant HostInv has a part for each *)
(* thing that outlives the process:                                        *)
(*   Installed  the migrations recorded are a first part of all, and once  *)
(*              start-up has passed them those of this version are in      *)
(*   Owned      the account's password is the one chosen last              *)
(*   Signed     there is one secret for ever, and every login is under it  *)
(*   Copied     while a backup runs no snapshot is newer than its own,     *)
(*              and when it prunes its own is whole and out of reach       *)
(***************************************************************************)
EXTENDS Host, TLAPS

Stages == {"down", "migrate", "organizer", "secret", "serving"}

Installed ==
    /\ stage \in Stages
    /\ shipped \in 1 .. Migrations
    /\ \E n \in 0 .. Migrations :
         /\ schema = 1 .. n /\ applied = 1 .. n
         /\ stage \in {"organizer", "secret", "serving"} => shipped <= n

Owned ==
    /\ env \in Passwords \cup {"none"}
    /\ organizer \in Passwords \cup {"none"} /\ changes \subseteq Passwords
    /\ organizer = chosen
    /\ stage \in {"secret", "serving"} => organizer # "none"

Signed ==
    /\ faults \in 0 .. FaultLimit
    /\ secret \in 0 .. FaultLimit + 1 /\ key \in {0, secret}
    /\ stage = "serving" => key = secret /\ secret # 0
    /\ logins \subseteq {secret} \ {0}

File == [state : {"none", "partial", "whole"}, written : Days]
Job == [step : {"idle", "remove", "write", "finish", "prune"},
        day : Days, cutoff : -Keep .. Horizon]

Copied ==
    /\ files \in [Days -> File] /\ job \in Job
    /\ due \in BOOLEAN /\ now \in Days
    /\ \A d \in Days : files[d].state # "none" => d <= now
    /\ job.step # "idle" =>
         /\ job.day <= now
         /\ \A d \in Days : files[d].state # "none" => d <= job.day
    /\ job.step = "prune" =>
         /\ job.cutoff <= now - Keep
         /\ files[job.day].state = "whole" /\ files[job.day].written > job.cutoff

HostInv == Installed /\ Owned /\ Signed /\ Copied

LEMMA HostInitInv == Init => HostInv
<1> SUFFICES ASSUME Init PROVE HostInv
  OBVIOUS
<1>1. Installed
  <2>1. schema = 1 .. 0 /\ applied = 1 .. 0 /\ 0 \in 0 .. Migrations
    BY HostAssumption DEF Init
  <2> QED BY <2>1 DEF Init, Installed, Stages
<1>2. Owned /\ Signed
  BY HostAssumption DEF Init, Owned, Signed
<1>3. Copied
  <2>1. Absent \in File /\ Idle \in Job /\ 0 \in Days
    BY HostAssumption DEF File, Job, Absent, Idle, Days
  <2>2. \A d \in Days : files[d].state = "none"
    BY DEF Init, Absent
  <2> QED BY <2>1, <2>2 DEF Init, Copied, Idle
<1> QED BY <1>1, <1>2, <1>3 DEF HostInv

(* The migration chosen is the next one: those recorded are an interval. *)
LEMMA NextPending ==
    ASSUME NEW n \in 0 .. Migrations, applied = 1 .. n,
           shipped \in 1 .. Migrations, Pending # {}
    PROVE  /\ (CHOOSE m \in Pending : \A k \in Pending : m <= k) = n + 1
           /\ n + 1 <= shipped
<1>1. \A k \in Pending : k \in Int /\ n + 1 <= k /\ k <= shipped
  BY HostAssumption DEF Pending
<1>2. n + 1 \in Pending
  BY <1>1, HostAssumption DEF Pending
<1> DEFINE m == CHOOSE m \in Pending : \A k \in Pending : m <= k
<1>3. m \in Pending /\ \A k \in Pending : m <= k
  BY <1>1, <1>2
<1> HIDE DEF m
<1>4. m = n + 1
  BY <1>1, <1>2, <1>3, HostAssumption
<1> QED BY <1>1, <1>2, <1>4 DEF m

LEMMA InstalledStep ==
    ASSUME Installed, [Next]_vars
    PROVE  Installed'
<1>a. PICK n \in 0 .. Migrations :
        /\ schema = 1 .. n /\ applied = 1 .. n
        /\ stage \in {"organizer", "secret", "serving"} => shipped <= n
  BY DEF Installed
<1>b. stage \in Stages /\ shipped \in 1 .. Migrations
  BY DEF Installed
<1>1. ASSUME UNCHANGED <<shipped, schema, applied>>, stage' \in Stages,
             stage' \in {"organizer", "secret", "serving"} =>
                 stage \in {"organizer", "secret", "serving"}
      PROVE  Installed'
  BY <1>a, <1>b, <1>1 DEF Installed
<1>2. CASE Migrate
  <2>1. Pending # {} /\ stage = "migrate" /\ shipped' = shipped
    BY <1>2 DEF Migrate, deployed
  <2>2. /\ (CHOOSE m \in Pending : \A k \in Pending : m <= k) = n + 1
        /\ n + 1 <= shipped
    BY <1>a, <1>b, <2>1, NextPending
  <2>3. n + 1 \notin schema
    BY <1>a, HostAssumption
  <2>4. /\ schema' = schema \cup {n + 1} /\ applied' = applied \cup {n + 1}
        /\ stage' = stage
    BY <1>2, <2>2, <2>3 DEF Migrate
  <2>5. (1 .. n) \cup {n + 1} = 1 .. n + 1
    BY <1>a, HostAssumption
  <2>6. n + 1 \in 0 .. Migrations
    BY <1>a, <1>b, <2>2, HostAssumption
  <2> QED BY <1>a, <1>b, <2>1, <2>4, <2>5, <2>6 DEF Installed
<1>3. CASE Migrated
  <2>1. 1 .. shipped \subseteq 1 .. n
    BY <1>a, <1>3 DEF Migrated, Pending
  <2>2. shipped <= n
    BY <1>a, <1>b, <2>1, HostAssumption
  <2> QED BY <1>a, <1>b, <1>3, <2>2 DEF Migrated, Installed, Stages, deployed, database
<1>4. ASSUME NEW v \in 1 .. Migrations, NEW p, Deploy(v, p) PROVE Installed'
  BY <1>a, <1>4 DEF Deploy, Installed, Stages, database
<1>5. CASE Start \/ EnsureOrganizer \/ MetaOrCreate
  BY <1>1, <1>5 DEF Start, EnsureOrganizer, MetaOrCreate, Stages, deployed, database
<1>6. CASE Stop
  BY <1>1, <1>6 DEF Stop, Stages, deployed, database
<1>7. ASSUME NEW p \in Passwords, NEW q \in Passwords,
             Login \/ CheckPassword(p, q) \/ SetOrganizerPassword(p)
      PROVE  Installed'
  BY <1>1, <1>b, <1>7 DEF Login, CheckPassword, SetOrganizerPassword, deployed, database
<1>8. CASE Login \/ Tick \/ VacuumFails
  BY <1>1, <1>b, <1>8 DEF Login, Tick, VacuumFails, others, deployed, database
<1>9. CASE Backup
  BY <1>1, <1>b, <1>9 DEF Backup, BackupOnce, RemoveSameDay, VacuumInto, Written,
     Prune, Pruned, others, deployed, database
<1>10. CASE UNCHANGED vars
  BY <1>1, <1>b, <1>10 DEF vars, deployed, database
<1> QED BY <1>2, <1>3, <1>4, <1>5, <1>6, <1>7, <1>8, <1>9, <1>10 DEF Next, StartUp

(* Nobody but the first boot and the organizer writes the password. *)
LEMMA OwnedStep ==
    ASSUME Owned, [Next]_vars
    PROVE  Owned'
<1>1. ASSUME UNCHANGED <<env, account>>,
             stage' \in {"secret", "serving"} => stage \in {"secret", "serving"}
      PROVE  Owned'
  BY <1>1 DEF Owned, account
<1>2. CASE EnsureOrganizer
  BY <1>2 DEF EnsureOrganizer, Owned, deployed
<1>3. ASSUME NEW v, NEW p \in Passwords \cup {"none"}, Deploy(v, p)
      PROVE  Owned'
  BY <1>3 DEF Deploy, Owned, account
<1>4. CASE Start \/ Migrate \/ Migrated \/ MetaOrCreate
  BY <1>1, <1>4 DEF Start, Migrate, Migrated, MetaOrCreate, deployed
<1>5. CASE Stop
  BY <1>5 DEF Stop, Owned, deployed
<1>6. ASSUME NEW p \in Passwords, NEW q \in Passwords, CheckPassword(p, q)
      PROVE  Owned'
  BY <1>6 DEF CheckPassword, Owned, deployed
<1>7. ASSUME NEW p \in Passwords, SetOrganizerPassword(p) PROVE Owned'
  BY <1>7, HostAssumption DEF SetOrganizerPassword, Owned, deployed
<1>8. CASE Login \/ Tick \/ VacuumFails
  BY <1>1, <1>8 DEF Login, Tick, VacuumFails, others, deployed
<1>9. CASE Backup
  BY <1>1, <1>9 DEF Backup, BackupOnce, RemoveSameDay, VacuumInto, Written,
     Prune, Pruned, others, deployed
<1>10. CASE UNCHANGED vars
  BY <1>1, <1>10 DEF vars, deployed
<1> QED BY <1>2, <1>3, <1>4, <1>5, <1>6, <1>7, <1>8, <1>9, <1>10 DEF Next, StartUp

(* The secret is drawn once, before anybody can log in. *)
LEMMA SignedStep ==
    ASSUME Signed, [Next]_vars
    PROVE  Signed'
<1>1. ASSUME UNCHANGED session, stage' = "serving" => stage = "serving",
             faults' \in 0 .. FaultLimit
      PROVE  Signed'
  BY <1>1 DEF Signed, session
<1>2. CASE MetaOrCreate
  BY <1>2, HostAssumption DEF MetaOrCreate, Signed
<1>3. CASE Login
  BY <1>3 DEF Login, Signed
<1>4. CASE Stop
  BY <1>4, HostAssumption DEF Stop, Signed
<1>5. CASE Start \/ Migrate \/ Migrated \/ EnsureOrganizer
  BY <1>1, <1>5 DEF Start, Migrate, Migrated, EnsureOrganizer, Signed
<1>6. ASSUME NEW v, NEW p, Deploy(v, p) PROVE Signed'
  BY <1>1, <1>6 DEF Deploy, Signed
<1>7. ASSUME NEW p, NEW q, CheckPassword(p, q) \/ SetOrganizerPassword(p)
      PROVE  Signed'
  BY <1>1, <1>7 DEF CheckPassword, SetOrganizerPassword, Signed
<1>8. CASE Tick
  BY <1>1, <1>8 DEF Tick, Signed
<1>9. CASE VacuumFails
  <2>1. faults' \in 0 .. FaultLimit
    BY <1>9, HostAssumption DEF VacuumFails, Signed
  <2> QED BY <1>1, <1>9, <2>1 DEF VacuumFails, others
<1>10. CASE Backup
  BY <1>1, <1>10 DEF Backup, BackupOnce, RemoveSameDay, VacuumInto, Written,
     Prune, Pruned, others, Signed
<1>11. CASE UNCHANGED vars
  BY <1>1, <1>11 DEF vars, Signed
<1> QED BY <1>2, <1>3, <1>4, <1>5, <1>6, <1>7, <1>8, <1>9, <1>10, <1>11
        DEF Next, StartUp

LEMMA Dated ==
    ASSUME Copied
    PROVE  /\ job.day \in Days /\ job.day \in Int /\ job.cutoff \in Int /\ now \in Int
           /\ \A d \in Days : d \in Int /\ files[d].written \in Int
<1>1. Days \subseteq Int /\ -Keep .. Horizon \subseteq Int
  BY HostAssumption DEF Days
<1>2. \A f \in File : f.written \in Days
  BY DEF File
<1>3. \A d \in Days : files[d] \in File
  BY DEF Copied
<1>4. job.day \in Days /\ job.cutoff \in -Keep .. Horizon /\ now \in Days
  BY DEF Copied, Job
<1> QED BY <1>1, <1>2, <1>3, <1>4

(* One run at a time, each named after the day it starts on. *)
LEMMA CopiedStep ==
    ASSUME Copied, [Next]_vars
    PROVE  Copied'
<1>a. /\ files \in [Days -> File] /\ job \in Job /\ job.day \in Days
      /\ due \in BOOLEAN /\ now \in Days /\ Days \subseteq Nat
      /\ job.cutoff \in -Keep .. Horizon /\ 0 \in -Keep .. Horizon
  BY HostAssumption DEF Copied, Job, Days
<1>b. Absent \in File /\ Absent.state = "none" /\ Idle \in Job /\ Idle.step = "idle"
  BY HostAssumption DEF File, Job, Absent, Idle, Days
<1>1. ASSUME UNCHANGED <<files, now>>, job' \in {job, Idle}, due' \in BOOLEAN
      PROVE  Copied'
  BY <1>1, <1>b DEF Copied
<1>2. CASE Tick
  <2>1. now' \in Days /\ now' = now + 1
    BY <1>2, <1>a, HostAssumption DEF Tick, Days
  <2>3. due' \in BOOLEAN
    BY <1>2 DEF Tick
  <2>2. /\ \A d \in Days : d <= now => d <= now'
        /\ job.cutoff <= now - Keep => job.cutoff <= now' - Keep
    BY <1>a, <2>1, HostAssumption
  <2>4. job' = job /\ files' = files
    BY <1>2 DEF Tick
  <2> QED BY <1>a, <2>1, <2>2, <2>3, <2>4 DEF Copied
<1>3. CASE BackupOnce
  <2> DEFINE new == [step |-> "remove", day |-> now, cutoff |-> 0]
  <2>1. new \in Job /\ new.step = "remove" /\ new.day = now
    BY <1>a DEF Job
  <2>2. job' = new /\ UNCHANGED <<files, now>> /\ due' = FALSE
    BY <1>3 DEF BackupOnce, others
  <2> HIDE DEF new
  <2>3. /\ files' \in [Days -> File] /\ job' \in Job /\ due' \in BOOLEAN
        /\ now' \in Days /\ job'.step = "remove" /\ job'.day = now'
    BY <1>a, <2>1, <2>2
  <2>4. \A d \in Days : files'[d].state # "none" => d <= now'
    BY <2>2 DEF Copied
  <2>5. now' <= now'
    BY <1>a, <2>2
  <2> QED BY <2>3, <2>4, <2>5 DEF Copied
<1>4. ASSUME NEW d \in Days, NEW f \in File, UNCHANGED now,
             files' = [files EXCEPT ![d] = f],
             f.state # "none" => job.step # "idle" /\ d = job.day,
             due' \in BOOLEAN, job' \in Job, job'.day = job.day,
             job'.step # "idle" => job.step # "idle",
             job'.step = "prune" =>
                 /\ job'.cutoff <= now - Keep
                 /\ files'[job.day].state = "whole"
                 /\ files'[job.day].written > job'.cutoff
      PROVE  Copied'
  BY <1>4, <1>a DEF Copied
<1>5. CASE RemoveSameDay
  <2> DEFINE new == [job EXCEPT !.step = "write"]
  <2>1. new \in Job /\ new.step = "write" /\ new.day = job.day
    BY <1>a DEF Job
  <2>2. /\ job' = new /\ UNCHANGED <<due, now>> /\ job.step = "remove"
        /\ files' = [files EXCEPT ![job.day] = Absent]
    BY <1>5 DEF RemoveSameDay, others
  <2> HIDE DEF new
  <2> QED BY <1>4, <1>a, <1>b, <2>1, <2>2
<1>6. CASE VacuumInto
  <2> DEFINE new == [job EXCEPT !.step = "finish"]
             f == [state |-> "partial", written |-> now]
  <2>1. CASE files[job.day].state = "none"
    <3>1. /\ new \in Job /\ new.step = "finish" /\ new.day = job.day
          /\ f \in File
      BY <1>a DEF Job, File
    <3>2. /\ job' = new /\ UNCHANGED <<due, now>> /\ job.step = "write"
          /\ files' = [files EXCEPT ![job.day] = f]
      BY <1>6, <2>1 DEF VacuumInto, others
    <3> HIDE DEF new, f
    <3> QED BY <1>4, <1>a, <3>1, <3>2
  <2>2. CASE files[job.day].state # "none"
    BY <1>1, <1>6, <1>a, <2>2 DEF VacuumInto, others
  <2> QED BY <2>1, <2>2
<1>7. CASE Written
  <2> DEFINE new == [job EXCEPT !.step = "prune", !.cutoff = now - Keep]
             f == [state |-> "whole", written |-> now]
  <2>1. now - Keep \in -Keep .. Horizon
    BY <1>a, HostAssumption DEF Days
  <2>2. /\ new \in Job /\ new.step = "prune" /\ new.day = job.day
        /\ new.cutoff = now - Keep
    BY <1>a, <2>1 DEF Job
  <2>3. f \in File /\ f.state = "whole" /\ f.written = now
    BY <1>a DEF File
  <2>4. /\ job' = new /\ UNCHANGED <<due, now>> /\ job.step = "finish"
        /\ files' = [files EXCEPT ![job.day] = f]
    BY <1>7 DEF Written, others
  <2> HIDE DEF new, f
  <2>5. files'[job.day] = f /\ now > now - Keep
    BY <1>a, <2>4, HostAssumption
  <2>6. now - Keep <= now - Keep
    BY <1>a, HostAssumption
  <2> QED BY <1>4, <1>a, <2>2, <2>3, <2>4, <2>5, <2>6
<1>8. ASSUME NEW d \in Days, Prune(d) PROVE Copied'
  <2>1. /\ job.step = "prune" /\ files[d].written <= job.cutoff
        /\ UNCHANGED <<due, now, job>> /\ files' = [files EXCEPT ![d] = Absent]
    BY <1>8 DEF Prune, Old, others
  <2>2. d # job.day
    <3>1. files[d].written \in Int /\ files[job.day].written > job.cutoff
      BY <2>1, Dated DEF Copied
    <3> QED BY <1>a, <2>1, <3>1
  <2>3. files'[job.day] = files[job.day]
    BY <1>a, <2>1, <2>2
  <2> QED BY <1>4, <1>a, <1>b, <2>1, <2>3 DEF Copied
<1>9. CASE Pruned \/ VacuumFails
  BY <1>1, <1>9, <1>a DEF Pruned, VacuumFails, others
<1>10. CASE StartUp \/ Stop
  BY <1>1, <1>10, <1>a DEF StartUp, Start, Migrate, Migrated, EnsureOrganizer,
     MetaOrCreate, Stop, backups
<1>11. ASSUME NEW v, NEW p, NEW q,
              Deploy(v, p) \/ Login \/ CheckPassword(p, q) \/ SetOrganizerPassword(p)
       PROVE  Copied'
  BY <1>1, <1>11, <1>a DEF Deploy, Login, CheckPassword, SetOrganizerPassword, backups
<1>12. CASE UNCHANGED vars
  BY <1>1, <1>12, <1>a DEF vars, backups
<1> QED BY <1>2, <1>3, <1>5, <1>6, <1>7, <1>8, <1>9, <1>10, <1>11, <1>12
        DEF Next, Backup

-----------------------------------------------------------------------------

(* The inductive invariant: wherever the process stopped and whatever was
   deployed in between, what outlives it fits together. *)
THEOREM HostInvariant == Spec => []HostInv
<1>1. HostInv /\ [Next]_vars => HostInv'
  BY InstalledStep, OwnedStep, SignedStep, CopiedStep DEF HostInv
<1> QED BY <1>1, HostInitInv, PTL DEF Spec

(* Type correctness for any bounds; a process that serves has its migrations
   in the database and an account. *)
THEOREM HostTypeCorrect == Spec => []TypeOK
<1>1. HostInv => TypeOK
  <2> SUFFICES ASSUME HostInv PROVE TypeOK
    OBVIOUS
  <2>1. PICK n \in 0 .. Migrations :
          /\ schema = 1 .. n /\ applied = 1 .. n
          /\ stage \in {"organizer", "secret", "serving"} => shipped <= n
    BY DEF HostInv, Installed
  <2>2. /\ stage \in Stages /\ shipped \in 1 .. Migrations
        /\ stage = "serving" => shipped \in schema
    BY <2>1, HostAssumption DEF HostInv, Installed
  <2>3. /\ key \in 0 .. FaultLimit + 1 /\ logins \subseteq 1 .. FaultLimit + 1
        /\ secret \in 0 .. FaultLimit + 1 /\ faults \in 0 .. FaultLimit
    BY HostAssumption DEF HostInv, Signed
  <2>4. /\ env \in Passwords \cup {"none"} /\ changes \subseteq Passwords
        /\ organizer \in Passwords \cup {"none"}
        /\ chosen \in Passwords \cup {"none"}
        /\ stage = "serving" => organizer # "none"
    BY DEF HostInv, Owned
  <2>5. /\ files \in [Days -> [state : {"none", "partial", "whole"}, written : Days]]
        /\ job \in [step : {"idle", "remove", "write", "finish", "prune"},
                    day : Days, cutoff : -Keep .. Horizon]
        /\ due \in BOOLEAN /\ now \in Days
    BY DEF HostInv, Copied, File, Job
  <2> QED BY <2>1, <2>2, <2>3, <2>4, <2>5 DEF TypeOK, Stages
<1> QED BY <1>1, HostInvariant, PTL

(* For any number of restarts, versions and environments: logins stay good and
   the password stays the one chosen last. *)
THEOREM AccountHolds == Spec => []AccountSurvives
<1>1. HostInv => AccountSurvives
  BY DEF HostInv, Owned, Signed, AccountSurvives
<1> QED BY <1>1, HostInvariant, PTL

(* For any number of days and failures: a whole snapshot is only ever replaced
   by that of the same day, or dropped when it is too old and there is a later
   one. *)
THEOREM CopiesHold == Spec => CopiesKept
<1> DEFINE Kept(d) ==
        \/ d = job.day
        \/ /\ files[d].written <= now - Keep
           /\ \E e \in Whole' : e > d
<1>1. ASSUME HostInv, [Next]_vars, NEW d \in Whole \ Whole' PROVE Kept(d)
  <2>a. /\ files \in [Days -> File] /\ now \in Int
        /\ job.day \in Days /\ job.day \in Int /\ job.cutoff \in Int
        /\ d \in Days /\ d \in Int /\ files[d].state = "whole"
        /\ files[d].written \in Int
    BY <1>1, Dated DEF HostInv, Copied, Whole
  <2>b. files' # files
    BY <1>1 DEF Whole
  <2>1. CASE RemoveSameDay \/ VacuumInto \/ Written
    <3>1. PICK f : files' = [files EXCEPT ![job.day] = f]
      BY <2>1, <2>b DEF RemoveSameDay, VacuumInto, Written
    <3> QED BY <1>1, <2>a, <3>1 DEF Whole
  <2>2. ASSUME NEW x \in Days, Prune(x) PROVE Kept(d)
    <3>1. /\ job.step = "prune" /\ x \in Old
          /\ files' = [files EXCEPT ![x] = Absent]
      BY <2>2 DEF Prune
    <3>2. d = x
      BY <1>1, <2>a, <3>1 DEF Whole
    <3>3. files[d].written <= job.cutoff /\ job.cutoff <= now - Keep
      BY <1>1, <3>1, <3>2 DEF Old, HostInv, Copied
    <3>4. /\ files[job.day].state = "whole" /\ files[job.day].written > job.cutoff
          /\ d <= job.day
      BY <1>1, <2>a, <3>1 DEF HostInv, Copied
    <3>5. d # job.day
      BY <2>a, <3>3, <3>4
    <3>6. job.day \in Whole' /\ job.day > d
      BY <2>a, <3>1, <3>2, <3>4, <3>5 DEF Whole
    <3>7. files[d].written <= now - Keep
      BY <2>a, <3>3, HostAssumption
    <3> QED BY <3>6, <3>7
  <2>3. ASSUME NEW v, NEW p, NEW q,
               \/ StartUp \/ Stop \/ Deploy(v, p) \/ Login
               \/ CheckPassword(p, q) \/ SetOrganizerPassword(p)
        PROVE  FALSE
    BY <2>b, <2>3 DEF StartUp, Start, Migrate, Migrated, EnsureOrganizer,
       MetaOrCreate, Stop, Deploy, Login, CheckPassword, SetOrganizerPassword, backups
  <2>4. CASE BackupOnce \/ Pruned \/ VacuumFails \/ Tick \/ UNCHANGED vars
    BY <2>b, <2>4 DEF BackupOnce, Pruned, VacuumFails, Tick, vars, backups
  <2> QED BY <1>1, <2>1, <2>2, <2>3, <2>4 DEF Next, Backup
<1>2. HostInv /\ [Next]_vars => [\A d \in Whole \ Whole' : Kept(d)]_vars
  BY <1>1
<1> QED BY <1>2, HostInvariant, PTL DEF Spec, CopiesKept
=============================================================================
