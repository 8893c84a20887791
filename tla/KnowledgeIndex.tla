-------------------------- MODULE KnowledgeIndex --------------------------
(***************************************************************************)
(* The knowledge index of one project (core.py, 2898-3678): local files    *)
(* are copied into the database under their digest, audited against the    *)
(* disk, refreshed all together, and quoted in the evidence manifest of a  *)
(* job.  Files are edited at any time by programs that know nothing of     *)
(* this, so every read of a file is a step of its own.                     *)
(* The n-th content of a file is n; contents do not come back.  A file that *)
(* cannot be read makes its reader refuse, which Refuse always may.         *)
(***************************************************************************)
EXTENDS Integers, Nothing

CONSTANTS Sources,    \* knowledge files
          Clients,    \* commands that use the index
          MaxVersion  \* bound: a file is edited no more often than this

ASSUME KnowledgeAssumption == MaxVersion \in Nat

VARIABLES onDisk, \* the content of each file
          index,  \* the knowledge table: digest and added_at of each source
          client, \* what each client is doing
          history \* per refresh or admission, all states of the disk since it began to read

knowledgeVars == <<onDisk, index, client, history>>

Unseen == -1
Contents == -1..MaxVersion

(* added_at is renewed by every update of a row: no row ever recurs. *)
NotIndexed == [sha |-> Unseen, stamp |-> 0]
Indexed(row) == row.stamp > 0

Unread == [s \in Sources |-> Unseen]
NoRows == [s \in Sources |-> NotIndexed]

(* The sources of the project. *)
Scope == {s \in Sources : Indexed(index[s])}

ClientAtRest == [step |-> "idle", left |-> {}, rows |-> NoRows, read |-> Unread]

ClientSteps == {"idle", "add", "store", "audit", "audit again", "update", "check", "search",
                "submit", "recheck", "admitted"}

KnowledgeTypeOK ==
    /\ onDisk \in [Sources -> 0..MaxVersion]
    /\ index \in [Sources -> [sha : Contents, stamp : Nat]]
    /\ client \in [Clients -> [step : ClientSteps, left : SUBSET Sources,
                               rows : [Sources -> [sha : Contents, stamp : Nat]],
                               read : [Sources -> Contents]]]
    /\ history \in [Clients -> SUBSET [Sources -> Contents]]

KnowledgeInit == /\ onDisk = [s \in Sources |-> 0]
                 /\ index = NoRows
                 /\ client = [c \in Clients |-> ClientAtRest]
                 /\ history = [c \in Clients |-> {}]

(* The write lock: an admitting transaction re-reads files while it holds it. *)
IndexUnlocked(c) == \A d \in Clients \ {c} : client[d].step # "recheck"

StartClient(c, state) == /\ client[c].step = "idle"
                         /\ client' = [client EXCEPT ![c] = state]

StopClient(c) == /\ client' = [client EXCEPT ![c] = ClientAtRest]
                 /\ history' = [history EXCEPT ![c] = {}]

(* One more file is read; its content is kept when it is needed later. *)
Read(c, s) == client' = [client EXCEPT ![c].left = @ \ {s}, ![c].read[s] = onDisk[s]]

Compare(c, s, sha) == /\ onDisk[s] = sha
                      /\ client' = [client EXCEPT ![c].left = @ \ {s}]

--------------------------------------------------------------------------
(* The disk. *)

Edit(s) == /\ onDisk[s] < MaxVersion
           /\ onDisk' = [onDisk EXCEPT ![s] = @ + 1]
           /\ history' = [c \in Clients |-> IF history[c] = {} THEN {}
                                           ELSE history[c] \cup {onDisk'}]
           /\ UNCHANGED <<index, client>>

--------------------------------------------------------------------------
(* knowledge add and add-dir: read a file, then store it, one after another. *)

BeginAdd(c, files) ==
    /\ files # {}
    /\ StartClient(c, [ClientAtRest EXCEPT !.step = "add", !.left = files])
    /\ UNCHANGED <<onDisk, index, history>>

ReadToAdd(c, s) ==
    /\ client[c].step = "add"
    /\ s \in client[c].left
    /\ client' = [client EXCEPT ![c].step = "store", ![c].left = @ \ {s}, ![c].read[s] = onDisk[s]]
    /\ UNCHANGED <<onDisk, index, history>>

Stored(row, v) == IF row.sha = v THEN row ELSE [sha |-> v, stamp |-> row.stamp + 1]

Store(c, s) ==
    /\ client[c].step = "store" /\ IndexUnlocked(c)
    /\ client[c].read[s] # Unseen
    /\ index' = [index EXCEPT ![s] = Stored(@, client[c].read[s])]
    /\ client' = [client EXCEPT ![c] =
                    IF @.left = {} THEN ClientAtRest
                    ELSE [ClientAtRest EXCEPT !.step = "add", !.left = client[c].left]]
    /\ UNCHANGED <<onDisk, history>>

--------------------------------------------------------------------------
(* knowledge refresh: all files are read twice, then all changed ones are
   stored in one transaction. *)

BeginRefresh(c) ==
    /\ Scope # {}
    /\ StartClient(c, [ClientAtRest EXCEPT !.step = "audit", !.left = Scope, !.rows = index])
    /\ history' = [history EXCEPT ![c] = {onDisk}]
    /\ UNCHANGED <<onDisk, index>>

Audit(c, s) ==
    /\ client[c].step = "audit"
    /\ s \in client[c].left
    /\ Read(c, s)
    /\ UNCHANGED <<onDisk, index, history>>

(* The rows of the scope are still the rows the command began with. *)
RowsUnchanged(c) == index = client[c].rows

StartAgain(c) ==
    /\ client[c].step = "audit" /\ client[c].left = {}
    /\ RowsUnchanged(c)
    /\ client' = [client EXCEPT ![c].step = "audit again", ![c].left = Scope]
    /\ UNCHANGED <<onDisk, index, history>>

(* Mutant: the second reading is not compared with the first. *)
ReadableAgain(c, s) == TRUE

(* A source reads the same the second time. *)
SameAgain(c, s) == onDisk[s] = client[c].read[s]

AuditAgain(c, s) ==
    /\ client[c].step = "audit again"
    /\ s \in client[c].left
    /\ SameAgain(c, s)
    /\ Read(c, s)
    /\ UNCHANGED <<onDisk, index, history>>

Update(c) ==
    /\ client[c].step = "audit again" /\ client[c].left = {} /\ IndexUnlocked(c)
    /\ RowsUnchanged(c)
    /\ index' = [s \in Sources |-> IF s \in Scope THEN Stored(index[s], client[c].read[s])
                                                   ELSE index[s]]
    /\ StopClient(c)
    /\ UNCHANGED <<onDisk>>

--------------------------------------------------------------------------
(* run: the sources must be current, are searched into a manifest, and must
   be unchanged and current once more when the job is inserted. *)

BeginRun(c) ==
    /\ StartClient(c, [ClientAtRest EXCEPT !.step = "check", !.left = Scope, !.rows = index])
    /\ UNCHANGED <<onDisk, index, history>>

Check(c, s) ==
    /\ client[c].step = "check"
    /\ s \in client[c].left
    /\ Compare(c, s, client[c].rows[s].sha)
    /\ UNCHANGED <<onDisk, index, history>>

(* The search reads the table anew; what it quotes goes into the manifest. *)
Search(c, hits) ==
    /\ client[c].step = "check" /\ client[c].left = {}
    /\ hits \subseteq Scope
    /\ client' = [client EXCEPT ![c].step = "submit",
                               ![c].read = [s \in Sources |-> IF s \in hits THEN index[s].sha
                                                                             ELSE Unseen]]
    /\ UNCHANGED <<onDisk, index, history>>

(* The admitting transaction takes the write lock and reads the files again. *)
OpenAdmission(c) ==
    /\ client[c].step = "submit" /\ IndexUnlocked(c)
    /\ client' = [client EXCEPT ![c].step = "recheck", ![c].left = Scope]
    /\ history' = [history EXCEPT ![c] = {onDisk}]
    /\ UNCHANGED <<onDisk, index>>

Recheck(c, s) ==
    /\ client[c].step = "recheck"
    /\ s \in client[c].left
    /\ Compare(c, s, index[s].sha)
    /\ UNCHANGED <<onDisk, index, history>>

Admit(c) ==
    /\ client[c].step = "recheck" /\ client[c].left = {}
    /\ RowsUnchanged(c)
    /\ client' = [client EXCEPT ![c].step = "admitted", ![c].rows = NoRows]
    /\ history' = [history EXCEPT ![c] = {}]
    /\ UNCHANGED <<onDisk, index>>

(* Any command may refuse or be killed before it commits; a job ends. *)
RefuseClient(c) == /\ client[c].step # "idle"
                   /\ StopClient(c)
                   /\ UNCHANGED <<onDisk, index>>

KnowledgeNext ==
    \/ \E s \in Sources : Edit(s)
    \/ \E c \in Clients :
         \/ \E files \in SUBSET Sources : BeginAdd(c, files) \/ Search(c, files)
         \/ BeginRefresh(c) \/ StartAgain(c) \/ Update(c)
         \/ BeginRun(c) \/ OpenAdmission(c) \/ Admit(c) \/ RefuseClient(c)
         \/ \E s \in Sources : \/ ReadToAdd(c, s) \/ Store(c, s) \/ Audit(c, s)
                               \/ AuditAgain(c, s) \/ Check(c, s) \/ Recheck(c, s)

KnowledgeSpec == KnowledgeInit /\ [][KnowledgeNext]_knowledgeVars

--------------------------------------------------------------------------
(* A refresh writes a state of the files that the disk really was in at one
   instant, although it reads them one by one while they are edited. *)
WritesSnapshot ==
    \A c \in Clients :
       client[c].step = "audit again" /\ index' # index /\ client'[c].step = "idle" =>
          \E d \in history[c] : \A s \in Scope : index'[s].sha = d[s]

RefreshIsSnapshot == [][WritesSnapshot]_knowledgeVars

(* A job is admitted with a manifest that quotes the index as it is at that
   moment: no add or refresh between the search and the admission goes by. *)
QuotesTheIndex ==
    \A c \in Clients :
       client[c].step = "recheck" /\ client'[c].step = "admitted" =>
          \A s \in Sources : client[c].read[s] \in {Unseen, index[s].sha}

AdmitsCurrentEvidence == [][QuotesTheIndex]_knowledgeVars

(* To a job the index is the one EvidenceBase promises: a refresh shows the
   files of one instant, and a job is admitted on quotations of an index that
   agreed with all its files at one instant of the admission, although both
   read the files one by one while they are edited and added. *)
Shown == [s \in Sources |-> index[s].sha]

Quoted == [c \in Clients |-> IF client[c].step = "admitted" THEN client[c].read ELSE None]

EB == INSTANCE EvidenceBase WITH files <- onDisk, base <- Shown, since <- history, job <- Quoted

ImplementsEvidenceBase == EB!Spec

===========================================================================
