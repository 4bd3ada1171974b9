------------------------------- MODULE Backups -------------------------------
(***************************************************************************)
(* The backups of the database and the test of their recovery:             *)
(* server/services/backup-service.js, recovery-test-service.js,            *)
(* utils/backup-encryption.js and routes/backup-routes.js.                 *)
(*                                                                         *)
(* A backup dumps the database to a file, encrypts the file, uploads it,   *)
(* uploads what decrypts it, deletes what the retention has outlived and   *)
(* removes its files.  A recovery test downloads a backup and decrypts it. *)
(* Backups and tests overlap: the schedule and the routes start them.      *)
(* The store is S3: a set of objects under the key that names their time.  *)
(* There is one password, which the environment of the process has or not, *)
(* and which it may get or lose with a restart.                            *)
(***************************************************************************)
EXTENDS Integers, FiniteSets, FiniteSetsExt

CONSTANTS
    Jobs,           \* runs of runBackup
    Tests,          \* runs of runRecoveryTest
    Retention,      \* RETENTION_DAYS
    LastDay         \* bound: days that pass

ASSUME BackupsAssumption == Retention \in Nat /\ LastDay \in Nat

VARIABLES
    configured,     \* the environment variables of the process that are set
    today,
    store,          \* the objects in the bucket
    job,            \* where each backup is
    test,           \* where each recovery test is
    disk            \* files under .backups, with the run that wrote them

backupsVars == <<configured, today, store, job, test, disk>>

Settings == {"bucket", "password"}
ObjectKinds == {"backup", "metadata"}

\* Keys carry the time of their upload: the store lists them oldest first.
Object == [kind : ObjectKinds, of : Jobs, day : 0 .. LastDay, key : Nat]
Latest(objects) == Max({o.key : o \in objects} \cup {0})
BackupsIn(objects) == {o \in objects : o.kind = "backup"}

JobStates == {"idle", "encrypt", "upload", "describe", "list", "delete", "done"}
TestStates == {"idle", "metadata", "download", "decrypt", "done"}
Results == {"none", "success", "failure"}
Files == {"dump", "torn dump", "encrypted", "torn encrypted", "download", "decrypted"}

BackupsTypeOK ==
    /\ configured \subseteq Settings
    /\ today \in 0 .. LastDay
    /\ store \subseteq Object
    /\ job \in [Jobs -> [pc : JobStates, result : Results, key : Nat, opens : BOOLEAN,
                      day : 0 .. LastDay, expired : SUBSET Object]]
    /\ test \in [Tests -> [pc : TestStates, result : Results, key : Nat, opens : BOOLEAN]]
    /\ disk \subseteq Files \X (Jobs \cup Tests)

BackupsInit ==
    /\ configured \in SUBSET Settings
    /\ today = 0
    /\ store = {}
    /\ job = [j \in Jobs |-> [pc |-> "idle", result |-> "none", key |-> 0, opens |-> FALSE,
                             day |-> 0, expired |-> {}]]
    /\ test = [t \in Tests |-> [pc |-> "idle", result |-> "none", key |-> 0, opens |-> FALSE]]
    /\ disk = {}

-----------------------------------------------------------------------------
(* Faulty variants: what the checks must notice. *)

ExpiresADayEarly(day) == {o \in store : o.day <= day - Retention}

-----------------------------------------------------------------------------
(* Helpers. *)

Become(j, pc) == job' = [job EXCEPT ![j].pc = pc]

\* Every answer removes the files whose names the run has been told; one that
\* a failing dump or cipher has begun is not among them.
Removed(j) == {<<"dump", j>>, <<"encrypted", j>>}
Ends(j, result, files) ==
    /\ job' = [job EXCEPT ![j].pc = "done", ![j].result = result, ![j].expired = {}]
    /\ disk' = files \ Removed(j)

Uploaded(j) == [kind |-> "backup", of |-> j, day |-> today, key |-> Latest(store) + 1]
Described(j) == [kind |-> "metadata", of |-> j, day |-> today, key |-> job[j].key]

-----------------------------------------------------------------------------
(* runBackup. *)

\* Up to the streams of the cipher there is no await.  Without a password a
\* random one encrypts, which nothing keeps: opens says whether the password of
\* the environment is the one.
Dump(j) ==
    /\ job[j].pc = "idle"
    /\ IF "bucket" \notin configured
       THEN Ends(j, "failure", disk)
       ELSE \/ Ends(j, "failure", disk \cup {<<"torn dump", j>>})
            \/ Ends(j, "failure", disk)
            \/ /\ job' = [job EXCEPT ![j].pc = "encrypt", ![j].opens = "password" \in configured]
               /\ disk' = disk \cup {<<"dump", j>>}
    /\ UNCHANGED <<configured, today, store, test>>

EncryptBackup(j) ==
    /\ job[j].pc = "encrypt"
    /\ \/ Become(j, "upload") /\ disk' = disk \cup {<<"encrypted", j>>}
       \/ Ends(j, "failure", disk \cup {<<"torn encrypted", j>>})
    /\ UNCHANGED <<configured, today, store, test>>

\* Each call of the store can fail, its effect done or not; of a deletion any part.
StoreFails(j) ==
    /\ job[j].pc \in {"upload", "describe", "list", "delete"}
    /\ Ends(j, "failure", disk)
    /\ \/ store' = store
       \/ job[j].pc = "upload" /\ store' = store \cup {Uploaded(j)}
       \/ job[j].pc = "describe" /\ store' = store \cup {Described(j)}
       \/ job[j].pc = "delete" /\ \E gone \in SUBSET job[j].expired : store' = store \ gone
    /\ UNCHANGED <<configured, today, test>>

UploadToS3(j) ==
    /\ job[j].pc = "upload"
    /\ store' = store \cup {Uploaded(j)}
    /\ job' = [job EXCEPT ![j].pc = "describe", ![j].key = Uploaded(j).key,
                        ![j].day = today]
    /\ UNCHANGED <<configured, today, test, disk>>

UploadMetadata(j) ==
    /\ job[j].pc = "describe"
    /\ store' = store \cup {Described(j)}
    /\ Become(j, "list")
    /\ UNCHANGED <<configured, today, test, disk>>

\* enforceRetentionPolicy lists what is older than the cutoff, then deletes it.
Expired(day) == {o \in store : o.day < day - Retention}

ListExpired(j) ==
    /\ job[j].pc = "list"
    /\ IF Expired(today) = {}
       THEN Ends(j, "success", disk)
       ELSE /\ job' = [job EXCEPT ![j].pc = "delete", ![j].expired = Expired(today)]
            /\ UNCHANGED disk
    /\ UNCHANGED <<configured, today, store, test>>

\* DeleteObjects answers with the keys it could not delete, which nobody reads.
DeleteExpired(j) ==
    /\ job[j].pc = "delete"
    /\ \E gone \in SUBSET job[j].expired : store' = store \ gone
    /\ Ends(j, "success", disk)
    /\ UNCHANGED <<configured, today, test>>

-----------------------------------------------------------------------------
(* runRecoveryTest. *)

Answered(t, result) == test' = [test EXCEPT ![t].pc = "done", ![t].result = result]

\* getLatestBackup asks the store for one key and sorts what it gets.
Listed(objects) == {o \in objects : \A p \in objects : o.key <= p.key}

GetLatestBackup(t) ==
    /\ test[t].pc = "idle"
    /\ LET page == Listed(BackupsIn(store))
       IN  IF "bucket" \notin configured \/ page = {}
           THEN Answered(t, "failure")
           ELSE test' = [test EXCEPT ![t].pc = "metadata", ![t].key = Latest(page)]
    /\ UNCHANGED <<configured, today, store, job, disk>>

\* getBackupMetadata falls back to what the backup itself carries.
Stored(key) == \E o \in store : o.key = key

GetBackupMetadata(t) ==
    /\ test[t].pc = "metadata"
    /\ IF Stored(test[t].key)
       THEN test' = [test EXCEPT ![t].pc = "download"] \/ Answered(t, "failure")
       ELSE Answered(t, "failure")
    /\ UNCHANGED <<configured, today, store, job, disk>>

\* Without a password the test ends behind the download, its file removed.
DownloadBackup(t) ==
    /\ test[t].pc = "download"
    /\ \/ \E o \in BackupsIn(store) :
             /\ o.key = test[t].key
             /\ "password" \in configured
             /\ test' = [test EXCEPT ![t].pc = "decrypt", ![t].opens = job[o.of].opens]
             /\ disk' = disk \cup {<<"download", t>>}
       \/ Answered(t, "failure") /\ UNCHANGED disk
    /\ UNCHANGED <<configured, today, store, job>>

\* The process ends where it is: runs end unanswered, files stay, and the next
\* process may find another environment.
Died(state) ==
    IF state.pc \in {"idle", "done"} THEN state ELSE [state EXCEPT !.pc = "done"]

ProcessEnds ==
    /\ job' = [j \in Jobs |-> [Died(job[j]) EXCEPT !.expired = {}]]
    /\ test' = [t \in Tests |-> Died(test[t])]
    /\ configured' \in SUBSET Settings

\* What the decipher has given out before its end is in the second file, in
\* clear if the password is the one; with another it is noise, and left out.
Deciphered(t) ==
    {disk} \cup (IF test[t].opens THEN {disk \cup {<<"decrypted", t>>}} ELSE {})

\* The authentication tag of the cipher was not kept and is not set: the end
\* of the stream is an error of the decipher, which has no listener.
DecryptBackup(t) ==
    /\ test[t].pc = "decrypt"
    /\ ProcessEnds
    /\ disk' \in Deciphered(t)
    /\ UNCHANGED <<today, store>>

\* A file that cannot be read or written is an answer; the name of the second
\* file is not known to the cleaning up yet.
DecryptFails(t) ==
    /\ test[t].pc = "decrypt"
    /\ Answered(t, "failure")
    /\ \E files \in Deciphered(t) : disk' = files \ {<<"download", t>>}
    /\ UNCHANGED <<configured, today, store, job>>

Crash ==
    /\ \/ \E j \in Jobs : job[j].pc \notin {"idle", "done"}
       \/ \E t \in Tests : test[t].pc \notin {"idle", "done"}
    /\ ProcessEnds
    /\ UNCHANGED <<today, store, disk>>

DayPasses ==
    /\ today < LastDay
    /\ today' = today + 1
    /\ UNCHANGED <<configured, store, job, test, disk>>

BackupsNext ==
    \/ \E j \in Jobs :
        \/ Dump(j) \/ EncryptBackup(j) \/ StoreFails(j) \/ UploadToS3(j)
        \/ UploadMetadata(j) \/ ListExpired(j) \/ DeleteExpired(j)
    \/ \E t \in Tests :
        \/ GetLatestBackup(t) \/ GetBackupMetadata(t) \/ DownloadBackup(t)
        \/ DecryptBackup(t) \/ DecryptFails(t)
    \/ Crash \/ DayPasses

-----------------------------------------------------------------------------
(* Properties. *)

\* A backup that was reported as done stays in the store, with the iv and salt
\* of its cipher, until the retention is over, whichever runs enforce it
\* meanwhile.  That anybody has its password is not said: a run that found none
\* in its environment is reported as done like any other.
SuccessIsKept ==
    \A j \in Jobs : job[j].result = "success" =>
        \/ \E o, m \in store :
              o.kind = "backup" /\ m.kind = "metadata" /\ {o.key, m.key} = {job[j].key}
        \/ today > job[j].day + Retention

\* "Always clean up local files": a complete dump, plain or encrypted, is on
\* disk only while its run is in progress or after the process has died in it.
DumpsAreRemoved ==
    \A j \in Jobs : {<<"dump", j>>, <<"encrypted", j>>} \cap disk # {} =>
        job[j].pc # "idle" /\ job[j].result = "none"

\* Recovery tests leave the database in clear on the disk, but only those that
\* ended in the decryption, and only what a password in the environment opened:
\* a dump that a random password sealed comes back through none of them.
OnlyOpenedIsClear ==
    \A t \in Tests : <<"decrypted", t>> \in disk =>
        test[t].pc = "done" /\ test[t].result # "success" /\ test[t].opens

\* In the bucket and on the disk: all of the above.
BackupsHold == SuccessIsKept /\ DumpsAreRemoved /\ OnlyOpenedIsClear

=============================================================================
