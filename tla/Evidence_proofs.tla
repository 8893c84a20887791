--------------------------- MODULE Evidence_proofs --------------------------
(***************************************************************************)
(* Theorems about the evidence that decisions rest on: the knowledge       *)
(* index, the proofs that retire a failure, and the reviews of products.   *)
(***************************************************************************)
EXTENDS KnowledgeIndex, QualitySupersession, ProductEvidence, TLAPS

----------------------------------------------------------------------------
(* KnowledgeIndex *)

\* Tables, commands and disks, typed.
IndexRows == [Sources -> [sha : Contents, stamp : Nat]]
ClientRecord == [step : ClientSteps, left : SUBSET Sources, rows : IndexRows, read : [Sources -> Contents]]
Disks == [Sources -> 0..MaxVersion]

\* What holds of one client k and the states past that its history holds.
ClientInv(k, table, files, past) ==
  /\ \A s \in Sources : k.read[s] <= files[s]
  /\ \A s \in Sources : k.rows[s].stamp <= table[s].stamp
  /\ k.step \in {"audit", "audit again"} => files \in past
  /\ k.step = "audit" =>
       \A s \in k.left : Indexed(k.rows[s])
  /\ k.step = "audit again" =>
       \E d \in past : \A s \in Sources : Indexed(k.rows[s]) =>
          /\ k.read[s] <= d[s] /\ d[s] <= files[s]
          /\ s \notin k.left => k.read[s] = d[s]
  /\ k.step \in {"submit", "recheck"} =>
       \A s \in Sources : k.read[s] # Unseen /\ table[s].stamp = k.rows[s].stamp
                            => k.read[s] = table[s].sha

\* The types, and: no index is ahead of the disk, and every client's readings
\* are as they say.
KnowledgeInv ==
  /\ KnowledgeTypeOK
  /\ \A s \in Sources : index[s].sha <= onDisk[s]
  /\ \A c \in Clients : ClientInv(client[c], index, onDisk, history[c])

\* A client at rest has its type.
LEMMA AtRestType == ClientAtRest \in ClientRecord
  BY KnowledgeAssumption DEF ClientAtRest, ClientRecord, ClientSteps, IndexRows, Contents,
     NoRows, Unread, NotIndexed, Unseen

\* It has read nothing, whatever table and files are.
LEMMA AtRestInv ==
  ASSUME NEW table \in IndexRows, NEW files \in Disks, NEW past
  PROVE  ClientInv(ClientAtRest, table, files, past)
  BY KnowledgeAssumption DEF ClientAtRest, ClientInv, IndexRows, Disks, NoRows, Unread,
     NotIndexed, Unseen

\* The empty index keeps the invariant.
LEMMA KnowledgeInitInv == KnowledgeInit => KnowledgeInv
<1> SUFFICES ASSUME KnowledgeInit PROVE KnowledgeInv
  OBVIOUS
<1>1. index \in IndexRows /\ onDisk \in Disks
  BY KnowledgeAssumption DEF KnowledgeInit, IndexRows, Disks, NoRows, NotIndexed, Contents, Unseen
<1>2. KnowledgeTypeOK
  BY <1>1, AtRestType DEF KnowledgeInit, KnowledgeTypeOK, IndexRows, Disks, ClientRecord
<1>3. \A s \in Sources : index[s].sha <= onDisk[s]
  <2> TAKE s \in Sources
  <2>1. index[s] = NotIndexed /\ onDisk[s] = 0
    BY DEF KnowledgeInit, NoRows
  <2> QED  BY <2>1 DEF NotIndexed, Unseen
<1>4. \A c \in Clients : ClientInv(client[c], index, onDisk, history[c])
  BY <1>1, AtRestInv DEF KnowledgeInit
<1> QED  BY <1>2, <1>3, <1>4 DEF KnowledgeInv

\* A row written anew has a new stamp, unless its content was there.
LEMMA StoredRow ==
  ASSUME NEW row \in [sha : Contents, stamp : Nat], NEW v \in Contents
  PROVE  /\ Stored(row, v) \in [sha : Contents, stamp : Nat]
         /\ Stored(row, v).sha = v
         /\ Stored(row, v) = row \/ Stored(row, v).stamp = row.stamp + 1
  BY KnowledgeAssumption DEF Stored, Contents

\* A client moves and the table and the files stay.
LEMMA ClientMoves ==
  ASSUME KnowledgeInv, NEW c \in Clients, NEW k \in ClientRecord, NEW past \in SUBSET [Sources -> Contents],
         client' = [client EXCEPT ![c] = k],
         (history' = history /\ past = history[c]) \/ history' = [history EXCEPT ![c] = past],
         UNCHANGED <<onDisk, index>>, ClientInv(k, index, onDisk, past)
  PROVE  KnowledgeInv'
<1>1. KnowledgeTypeOK'
  BY DEF KnowledgeInv, KnowledgeTypeOK, ClientRecord, IndexRows
<1>2. \A d \in Clients : ClientInv(client'[d], index', onDisk', history'[d])
  BY DEF KnowledgeInv, KnowledgeTypeOK
<1> QED  BY <1>1, <1>2 DEF KnowledgeInv

\* The table takes newer rows, and every client but c sees it.
LEMMA TableMoves ==
  ASSUME NEW table \in IndexRows, NEW newer \in IndexRows, NEW files \in Disks, NEW k \in ClientRecord, NEW past,
         ClientInv(k, table, files, past),
         \A s \in Sources : newer[s] = table[s] \/ newer[s].stamp = table[s].stamp + 1
  PROVE  ClientInv(k, newer, files, past)
<1>1. ASSUME NEW s \in Sources
      PROVE  /\ k.rows[s].stamp <= newer[s].stamp
             /\ newer[s].stamp = k.rows[s].stamp =>
                  table[s].stamp = k.rows[s].stamp /\ newer[s].sha = table[s].sha
  <2>1. table[s].stamp \in Nat /\ newer[s].stamp \in Nat /\ k.rows[s].stamp \in Nat
    BY DEF IndexRows, ClientRecord
  <2>2. k.rows[s].stamp <= table[s].stamp
    BY DEF ClientInv
  <2>3. CASE newer[s] = table[s]
    BY <2>2, <2>3
  <2>4. CASE newer[s].stamp = table[s].stamp + 1
    BY <2>1, <2>2, <2>4
  <2> QED  BY <2>3, <2>4
<1> QED  BY <1>1 DEF ClientInv


\* What a client holds when it begins.
Began(step, files) == [step |-> step, left |-> files, rows |-> index, read |-> Unread]

\* What the invariant says of one client.
LEMMA ClientTypes ==
  ASSUME KnowledgeInv, NEW c \in Clients
  PROVE  /\ client[c] \in ClientRecord /\ index \in IndexRows /\ onDisk \in Disks
         /\ history[c] \in SUBSET [Sources -> Contents]
         /\ ClientInv(client[c], index, onDisk, history[c])
         /\ Scope \in SUBSET Sources
         /\ onDisk \in [Sources -> Contents]
  BY KnowledgeAssumption DEF KnowledgeInv, KnowledgeTypeOK, ClientRecord, IndexRows, Disks,
     Scope, Contents

\* What it says of one source, as numbers.
LEMMA Numbers ==
  ASSUME KnowledgeInv, NEW s \in Sources
  PROVE  /\ index[s].stamp \in Nat /\ 0 <= index[s].stamp /\ index[s].stamp <= index[s].stamp
         /\ onDisk[s] \in Nat /\ onDisk[s] \in Contents /\ Unseen <= onDisk[s]
         /\ onDisk[s] <= onDisk[s] /\ index[s].sha <= onDisk[s]
<1>1. index[s] \in [sha : Contents, stamp : Nat] /\ onDisk[s] \in 0..MaxVersion
  BY DEF KnowledgeInv, KnowledgeTypeOK
<1>2. index[s].sha <= onDisk[s]
  BY DEF KnowledgeInv
<1> QED  BY <1>1, <1>2, KnowledgeAssumption DEF Contents, Unseen

\* An add begins and reads its files.
LEMMA AddSteps ==
  ASSUME KnowledgeInv, NEW c \in Clients,
         \/ \E files \in SUBSET Sources : BeginAdd(c, files)
         \/ \E s \in Sources : ReadToAdd(c, s)
  PROVE  KnowledgeInv'
<1> USE ClientTypes
<1>0. client \in [Clients -> ClientRecord]
  BY DEF KnowledgeInv, KnowledgeTypeOK, ClientRecord, IndexRows
<1>1. ASSUME NEW files \in SUBSET Sources, BeginAdd(c, files) PROVE KnowledgeInv'
  <2> DEFINE k == [step |-> "add", left |-> files, rows |-> NoRows, read |-> Unread]
  <2>1. client'[c] = k
    BY <1>0, <1>1, AtRestType DEF BeginAdd, StartClient, ClientRecord, ClientAtRest
  <2>2. k \in ClientRecord
    BY AtRestType DEF ClientRecord, ClientAtRest, ClientSteps
  <2>3. ClientInv(k, index, onDisk, history[c])
    <3>1. ClientInv(ClientAtRest, index, onDisk, history[c])
      BY AtRestInv
    <3> QED  BY <3>1 DEF ClientInv, ClientAtRest
  <2> HIDE DEF k
  <2>4. client' = [client EXCEPT ![c] = k] /\ UNCHANGED <<onDisk, index, history>>
    BY <1>1, <2>1 DEF BeginAdd, StartClient
  <2> QED  BY <2>2, <2>3, <2>4, ClientMoves
<1>2. ASSUME NEW s \in Sources, ReadToAdd(c, s) PROVE KnowledgeInv'
  <2>0. PICK v \in Contents : v = onDisk[s]
    OBVIOUS
  <2> DEFINE f == [client[c].read EXCEPT ![s] = v]
             k == [step |-> "store", left |-> client[c].left \ {s}, rows |-> client[c].rows, read |-> f]
  <2>1. client'[c] = k /\ client' = [client EXCEPT ![c] = client'[c]]
    <3>1. client' = [client EXCEPT ![c].step = "store", ![c].left = @ \ {s}, ![c].read[s] = v]
      BY <1>2, <2>0 DEF ReadToAdd
    <3>2. client'[c] = k
      BY <1>0, <3>1 DEF ClientRecord
    <3> QED  BY <1>0, <3>1, <3>2 DEF ClientRecord
  <2>2. f \in [Sources -> Contents] /\ \A q \in Sources : f[q] <= onDisk[q]
    <3>1. client[c].read \in [Sources -> Contents] /\ v \in Int
      BY <1>0, KnowledgeAssumption DEF ClientRecord, Contents
    <3>2. \A q \in Sources : client[c].read[q] <= onDisk[q]
      BY DEF ClientInv
    <3> QED  BY <2>0, <3>1, <3>2
  <2> HIDE DEF f
  <2>3. k \in ClientRecord /\ ClientInv(k, index, onDisk, history[c])
    BY <1>0, <2>2 DEF ClientRecord, ClientSteps, ClientInv
  <2> HIDE DEF k
  <2> QED  BY <1>2, <2>1, <2>3, ClientMoves DEF ReadToAdd
<1> QED  BY <1>1, <1>2

\* Steps that read one more file, into f or only to compare it.
LEMMA ReadSteps ==
  ASSUME KnowledgeInv, NEW c \in Clients, NEW s \in Sources,
         Audit(c, s) \/ AuditAgain(c, s) \/ Check(c, s) \/ Recheck(c, s)
  PROVE  KnowledgeInv'
<1> USE ClientTypes
<1>0. client \in [Clients -> ClientRecord]
  BY DEF KnowledgeInv, KnowledgeTypeOK, ClientRecord, IndexRows
<1>1. PICK v \in Contents : v = onDisk[s]
  OBVIOUS
<1> DEFINE f == [client[c].read EXCEPT ![s] = v]
           left == client[c].left \ {s}
<1>2. f \in [Sources -> Contents] /\ \A q \in Sources : f[q] <= onDisk[q]
  <2>1. client[c].read \in [Sources -> Contents] /\ v \in Int
    BY <1>0, KnowledgeAssumption DEF ClientRecord, Contents
  <2>2. \A q \in Sources : client[c].read[q] <= onDisk[q]
    BY DEF ClientInv
  <2> QED  BY <1>1, <2>1, <2>2
<1>3. ASSUME Audit(c, s) \/ AuditAgain(c, s) PROVE KnowledgeInv'
  <2> DEFINE k == [step |-> client[c].step, left |-> left, rows |-> client[c].rows, read |-> f]
  <2>1. client' = [client EXCEPT ![c].left = @ \ {s}, ![c].read[s] = v]
    BY <1>1, <1>3 DEF Audit, AuditAgain, Read
  <2>2. client'[c] = k
    BY <1>0, <2>1 DEF ClientRecord
  <2>3. client' = [client EXCEPT ![c] = k]
    BY <1>0, <2>1, <2>2 DEF ClientRecord
  <2>4. f[s] = v /\ \A q \in Sources \ {s} : f[q] = client[c].read[q]
    BY <1>0 DEF ClientRecord
  <2> HIDE DEF f
  <2>5. k \in ClientRecord
    BY <1>0, <1>2 DEF ClientRecord
  <2>6. ClientInv(k, index, onDisk, history[c])
    <3>1. CASE Audit(c, s)
      BY <3>1, <1>2 DEF ClientInv, Audit
    <3>2. CASE AuditAgain(c, s)
      <4>1. client[c].step = "audit again" /\ v = client[c].read[s]
        BY <3>2, <1>1 DEF AuditAgain, SameAgain
      <4>2. PICK d \in history[c] :
              \A q \in Sources : Indexed(client[c].rows[q]) =>
                 /\ client[c].read[q] <= d[q] /\ d[q] <= onDisk[q]
                 /\ q \notin client[c].left => client[c].read[q] = d[q]
        BY <4>1 DEF ClientInv
      <4>3. d[s] \in Int /\ onDisk[s] \in Int /\ client[c].read[s] \in Int
        BY <1>0, KnowledgeAssumption DEF ClientRecord, Contents
      <4>4. \A q \in Sources : Indexed(k.rows[q]) =>
                 /\ k.read[q] <= d[q] /\ d[q] <= onDisk[q]
                 /\ q \notin k.left => k.read[q] = d[q]
        <5> TAKE q \in Sources
        <5>1. CASE q = s
          <6>1. k.read[q] = v /\ onDisk[q] = v /\ k.rows[q] = client[c].rows[q] /\ client[c].read[q] = v
            BY <5>1, <1>1, <2>4, <4>1
          <6>2. ASSUME Indexed(client[c].rows[q]) PROVE v <= d[q] /\ d[q] <= v
            BY <4>2, <6>1, <6>2
          <6>3. d[q] \in Int /\ v \in Int
            BY <4>3, <5>1, <1>1
          <6> QED  BY <6>1, <6>2, <6>3
        <5>2. CASE q # s
          BY <5>2, <2>4, <4>2
        <5> QED  BY <5>1, <5>2
      <4> QED  BY <4>1, <4>4, <1>2 DEF ClientInv
    <3> QED  BY <1>3, <3>1, <3>2
  <2> HIDE DEF k
  <2> QED  BY <1>3, <2>3, <2>5, <2>6, ClientMoves DEF Audit, AuditAgain
<1>4. ASSUME Check(c, s) \/ Recheck(c, s) PROVE KnowledgeInv'
  <2> DEFINE k == [step |-> client[c].step, left |-> left, rows |-> client[c].rows,
                   read |-> client[c].read]
  <2>1. client' = [client EXCEPT ![c].left = @ \ {s}]
    BY <1>4 DEF Check, Recheck, Compare
  <2>2. client'[c] = k
    BY <1>0, <2>1 DEF ClientRecord
  <2>3. client' = [client EXCEPT ![c] = k]
    BY <1>0, <2>1, <2>2 DEF ClientRecord
  <2>4. k \in ClientRecord
    BY <1>0 DEF ClientRecord
  <2>5. ClientInv(k, index, onDisk, history[c])
    BY <1>4 DEF ClientInv, Check, Recheck
  <2> HIDE DEF k
  <2> QED  BY <1>4, <2>3, <2>4, <2>5, ClientMoves DEF Check, Recheck
<1> QED  BY <1>3, <1>4

\* Steps of a refresh, of a run and of a refusal that leave the index alone.
LEMMA OtherSteps ==
  ASSUME KnowledgeInv, NEW c \in Clients,
         \/ BeginRefresh(c) \/ StartAgain(c) \/ BeginRun(c) \/ OpenAdmission(c) \/ Admit(c)
         \/ RefuseClient(c) \/ \E hits \in SUBSET Sources : Search(c, hits)
  PROVE  KnowledgeInv'
<1> USE ClientTypes
<1>0. client \in [Clients -> ClientRecord]
  BY DEF KnowledgeInv, KnowledgeTypeOK, ClientRecord, IndexRows
<1>t. Unread \in [Sources -> Contents] /\ NoRows \in IndexRows /\ \A s \in Sources : Unread[s] = Unseen /\ NoRows[s].stamp = 0
  BY AtRestType DEF ClientAtRest, ClientRecord, Unread, NoRows, NotIndexed
<1>n. \A s \in Sources : index[s].stamp \in Nat /\ index[s].stamp >= 0 /\ onDisk[s] \in 0..MaxVersion
  BY DEF IndexRows, Disks
<1>1. CASE BeginRefresh(c)
  <2> DEFINE k == [step |-> "audit", left |-> Scope, rows |-> index, read |-> Unread]
  <2>1. client'[c] = k
    BY <1>0, <1>1, AtRestType DEF BeginRefresh, StartClient, ClientRecord, ClientAtRest
  <2>2. k \in ClientRecord
    BY <1>t DEF ClientRecord, ClientSteps
  <2>3. ClientInv(k, index, onDisk, {onDisk})
    <3>1. \A s \in Sources : Unread[s] <= onDisk[s] /\ index[s].stamp <= index[s].stamp
      BY <1>t, Numbers
    <3>2. \A s \in Scope : Indexed(index[s])
      BY DEF Scope
    <3> QED  BY <3>1, <3>2 DEF ClientInv
  <2> HIDE DEF k
  <2>4. client' = [client EXCEPT ![c] = k]
    BY <1>1, <2>1 DEF BeginRefresh, StartClient
  <2> QED  BY <1>1, <2>2, <2>3, <2>4, ClientMoves DEF BeginRefresh
<1>2. CASE StartAgain(c)
  <2> DEFINE k == [step |-> "audit again", left |-> Scope, rows |-> client[c].rows,
                   read |-> client[c].read]
  <2>1. client'[c] = k
    BY <1>0, <1>2 DEF StartAgain, ClientRecord
  <2>2. k \in ClientRecord
    BY <1>0 DEF ClientRecord, ClientSteps
  <2>3. ClientInv(k, index, onDisk, history[c])
    <3>1. index = client[c].rows /\ onDisk \in history[c]
      BY <1>2 DEF StartAgain, RowsUnchanged, ClientInv
    <3>2. \A q \in Sources : Indexed(k.rows[q]) =>
                 /\ k.read[q] <= onDisk[q] /\ onDisk[q] <= onDisk[q]
                 /\ q \notin k.left => k.read[q] = onDisk[q]
      <4>1. \A q \in Sources : client[c].read[q] <= onDisk[q]
        BY DEF ClientInv
      <4>2. \A q \in Sources : Indexed(client[c].rows[q]) => q \in Scope
        BY <3>1 DEF Scope
      <4> QED  BY <4>1, <4>2, <1>n
    <3> QED  BY <3>1, <3>2 DEF ClientInv
  <2> HIDE DEF k
  <2>4. client' = [client EXCEPT ![c] = k]
    BY <1>0, <1>2, <2>1 DEF StartAgain, ClientRecord
  <2> QED  BY <1>2, <2>2, <2>3, <2>4, ClientMoves DEF StartAgain
<1>3. CASE BeginRun(c)
  <2> DEFINE k == [step |-> "check", left |-> Scope, rows |-> index, read |-> Unread]
  <2>1. client'[c] = k
    BY <1>0, <1>3, AtRestType DEF BeginRun, StartClient, ClientRecord, ClientAtRest
  <2>2. k \in ClientRecord
    BY <1>t DEF ClientRecord, ClientSteps
  <2>3. ClientInv(k, index, onDisk, history[c])
    <3>1. \A s \in Sources : Unread[s] <= onDisk[s] /\ index[s].stamp <= index[s].stamp
      BY <1>t, Numbers
    <3> QED  BY <3>1 DEF ClientInv
  <2> HIDE DEF k
  <2>4. client' = [client EXCEPT ![c] = k]
    BY <1>3, <2>1 DEF BeginRun, StartClient
  <2> QED  BY <1>3, <2>2, <2>3, <2>4, ClientMoves DEF BeginRun
<1>4. CASE OpenAdmission(c)
  <2> DEFINE k == [step |-> "recheck", left |-> Scope, rows |-> client[c].rows,
                   read |-> client[c].read]
  <2>1. client'[c] = k
    BY <1>0, <1>4 DEF OpenAdmission, ClientRecord
  <2>2. k \in ClientRecord
    BY <1>0 DEF ClientRecord, ClientSteps
  <2>3. ClientInv(k, index, onDisk, {onDisk})
    BY <1>4 DEF ClientInv, OpenAdmission
  <2> HIDE DEF k
  <2>4. client' = [client EXCEPT ![c] = k]
    BY <1>0, <1>4, <2>1 DEF OpenAdmission, ClientRecord
  <2> QED  BY <1>4, <2>2, <2>3, <2>4, ClientMoves DEF OpenAdmission
<1>5. CASE Admit(c)
  <2> DEFINE k == [step |-> "admitted", left |-> client[c].left, rows |-> NoRows,
                   read |-> client[c].read]
  <2>0. client' = [client EXCEPT ![c].step = "admitted", ![c].rows = NoRows]
    BY <1>5 DEF Admit
  <2>1. client'[c] = k
    BY <1>0, <1>t, <2>0 DEF ClientRecord
  <2>2. k \in ClientRecord
    BY <1>0, <1>t DEF ClientRecord, ClientSteps
  <2>3. ClientInv(k, index, onDisk, {})
    BY <1>t, <1>n DEF ClientInv
  <2> HIDE DEF k
  <2>4. client' = [client EXCEPT ![c] = k]
    BY <1>0, <2>0, <2>1 DEF ClientRecord
  <2> QED  BY <1>5, <2>2, <2>3, <2>4, ClientMoves DEF Admit
<1>6. CASE RefuseClient(c)
  <2>1. ClientInv(ClientAtRest, index, onDisk, {})
    BY AtRestInv
  <2> QED  BY <1>6, <2>1, AtRestType, ClientMoves DEF RefuseClient, StopClient
<1>7. ASSUME NEW hits \in SUBSET Sources, Search(c, hits) PROVE KnowledgeInv'
  <2> DEFINE g == [s \in Sources |-> IF s \in hits THEN index[s].sha ELSE Unseen]
  <2>g. \A s \in Sources : index[s].sha \in Contents /\ Unseen \in Contents
    BY KnowledgeAssumption DEF IndexRows, Contents, Unseen
  <2>f. g \in [Sources -> Contents]
    BY <2>g
  <2>0. PICK f \in [Sources -> Contents] : f = g
    BY <2>f
  <2> DEFINE k == [step |-> "submit", left |-> client[c].left, rows |-> client[c].rows, read |-> f]
  <2>1. client' = [client EXCEPT ![c].step = "submit", ![c].read = f]
    BY <1>7, <2>0 DEF Search
  <2>2. client'[c] = k
    BY <1>0, <2>1 DEF ClientRecord
  <2>3. k \in ClientRecord
    BY <1>0 DEF ClientRecord, ClientSteps
  <2>4. \A s \in Sources : f[s] <= onDisk[s] /\ (f[s] # Unseen => f[s] = index[s].sha)
    <3>1. \A s \in Sources : index[s].sha <= onDisk[s] /\ Unseen <= onDisk[s]
      BY Numbers
    <3> QED  BY <2>0, <3>1
  <2>5. ClientInv(k, index, onDisk, history[c])
    BY <2>4 DEF ClientInv
  <2> HIDE DEF k
  <2>6. client' = [client EXCEPT ![c] = k]
    BY <1>0, <2>1, <2>2 DEF ClientRecord
  <2> QED  BY <1>7, <2>3, <2>5, <2>6, ClientMoves DEF Search
<1> QED  BY <1>1, <1>2, <1>3, <1>4, <1>5, <1>6, <1>7


\* Steps that write the index.
LEMMA IndexSteps ==
  ASSUME KnowledgeInv, NEW c \in Clients, Update(c) \/ \E s \in Sources : Store(c, s)
  PROVE  KnowledgeInv'
<1>0. client \in [Clients -> ClientRecord]
  BY DEF KnowledgeInv, KnowledgeTypeOK, ClientRecord, IndexRows
<1>1. /\ index' \in IndexRows /\ onDisk' = onDisk
      /\ \A s \in Sources : \/ index'[s] = index[s]
                            \/ /\ index'[s].sha = client[c].read[s]
                               /\ index'[s] = index[s] \/ index'[s].stamp = index[s].stamp + 1
  <2>1. \A s \in Sources : index[s] \in [sha : Contents, stamp : Nat] /\ client[c].read[s] \in Contents
    BY <1>0, ClientTypes DEF IndexRows, ClientRecord
  <2>2. CASE Update(c)
    BY <2>1, <2>2, StoredRow DEF Update, IndexRows
  <2>3. ASSUME NEW s \in Sources, Store(c, s)
        PROVE  /\ index' \in IndexRows /\ onDisk' = onDisk
               /\ \A q \in Sources : \/ index'[q] = index[q]
                                     \/ /\ index'[q].sha = client[c].read[q]
                                        /\ index'[q] = index[q] \/ index'[q].stamp = index[q].stamp + 1
    <3>1. index' = [index EXCEPT ![s] = Stored(index[s], client[c].read[s])] /\ onDisk' = onDisk
      BY <2>3 DEF Store
    <3>2. /\ Stored(index[s], client[c].read[s]) \in [sha : Contents, stamp : Nat]
          /\ Stored(index[s], client[c].read[s]).sha = client[c].read[s]
          /\ \/ Stored(index[s], client[c].read[s]) = index[s]
             \/ Stored(index[s], client[c].read[s]).stamp = index[s].stamp + 1
      BY <2>1, StoredRow
    <3>3. index \in [Sources -> [sha : Contents, stamp : Nat]]
      BY ClientTypes DEF IndexRows
    <3> QED  BY <3>1, <3>2, <3>3 DEF IndexRows
  <2> QED  BY <2>2, <2>3
<1>2. PICK k \in ClientRecord : /\ client' = [client EXCEPT ![c] = k]
                                /\ k = ClientAtRest \/ \E files \in SUBSET Sources :
                                     k = [step |-> "add", left |-> files, rows |-> NoRows, read |-> Unread]
  <2>1. CASE Update(c)
    BY <2>1, AtRestType DEF Update, StopClient
  <2>2. ASSUME NEW s \in Sources, Store(c, s)
        PROVE  \E k \in ClientRecord : /\ client' = [client EXCEPT ![c] = k]
                                       /\ k = ClientAtRest \/ \E files \in SUBSET Sources :
                                            k = [step |-> "add", left |-> files, rows |-> NoRows, read |-> Unread]
    <3>1. CASE client[c].left = {}
      BY <2>2, <3>1, AtRestType DEF Store
    <3>2. CASE client[c].left # {}
      <4>1. client' = [client EXCEPT ![c] = [ClientAtRest EXCEPT !.step = "add", !.left = client[c].left]]
        BY <2>2, <3>2 DEF Store
      <4>2. PICK files \in SUBSET Sources : files = client[c].left
        BY <1>0 DEF ClientRecord
      <4> DEFINE q == [step |-> "add", left |-> files, rows |-> NoRows, read |-> Unread]
      <4>3. client'[c] = q
        BY <1>0, <4>1, <4>2, AtRestType DEF ClientRecord, ClientAtRest
      <4>4. q \in ClientRecord
        BY AtRestType DEF ClientRecord, ClientAtRest, ClientSteps
      <4> HIDE DEF q
      <4>5. client' = [client EXCEPT ![c] = q]
        BY <4>1, <4>3
      <4> QED  BY <4>4, <4>5 DEF q
    <3> QED  BY <3>1, <3>2
  <2> QED  BY <2>1, <2>2
<1>3. \A s \in Sources : index'[s].sha <= onDisk'[s]
  <2>1. \A s \in Sources : client[c].read[s] <= onDisk[s]
    BY ClientTypes DEF ClientInv
  <2> QED  BY <1>1, <2>1, Numbers
<1>4. history' \in [Clients -> SUBSET [Sources -> Contents]] /\ \A d \in Clients \ {c} : history'[d] = history[d]
  BY DEF Update, Store, StopClient, KnowledgeInv, KnowledgeTypeOK
<1>5. KnowledgeTypeOK'
  BY <1>0, <1>1, <1>2, <1>4, ClientTypes DEF KnowledgeTypeOK, IndexRows, ClientRecord, Disks
<1>6. ASSUME NEW d \in Clients PROVE ClientInv(client'[d], index', onDisk', history'[d])
  <2>1. CASE d = c
    <3>1. ClientInv(ClientAtRest, index', onDisk', history'[d])
      BY <1>1, AtRestInv, ClientTypes
    <3>2. \A s \in Sources : Unread[s] <= onDisk'[s] /\ NoRows[s].stamp <= index'[s].stamp
      BY <3>1 DEF ClientInv, ClientAtRest
    <3>3. ASSUME NEW files \in SUBSET Sources,
                 k = [step |-> "add", left |-> files, rows |-> NoRows, read |-> Unread]
          PROVE  ClientInv(k, index', onDisk', history'[d])
      BY <3>2, <3>3 DEF ClientInv
    <3>4. ClientInv(k, index', onDisk', history'[d])
      BY <3>1, <3>3, <1>2
    <3> QED  BY <1>0, <1>2, <2>1, <3>4
  <2>2. CASE d # c
    <3>1. ClientInv(client[d], index', onDisk, history[d])
      <4>1. \A s \in Sources : index'[s] = index[s] \/ index'[s].stamp = index[s].stamp + 1
        BY <1>1
      <4> QED  BY <4>1, <1>1, TableMoves, ClientTypes
    <3> QED  BY <1>0, <1>1, <1>2, <1>4, <2>2, <3>1
  <2> QED  BY <2>1, <2>2
<1> QED  BY <1>3, <1>5, <1>6 DEF KnowledgeInv

\* A file is edited.
LEMMA EditStep ==
  ASSUME KnowledgeInv, NEW s \in Sources, Edit(s)
  PROVE  KnowledgeInv'
<1>0. client \in [Clients -> ClientRecord] /\ client' = client /\ index' = index
  BY DEF KnowledgeInv, KnowledgeTypeOK, ClientRecord, IndexRows, Edit
<1>1. onDisk' \in Disks /\ \A q \in Sources : onDisk[q] <= onDisk'[q]
  <2>1. onDisk \in [Sources -> 0..MaxVersion] /\ onDisk[s] < MaxVersion /\ onDisk' = [onDisk EXCEPT ![s] = @ + 1]
    BY DEF KnowledgeInv, KnowledgeTypeOK, Edit
  <2> QED  BY <2>1, KnowledgeAssumption DEF Disks
<1>2. \A c \in Clients : history'[c] \in SUBSET [Sources -> Contents] /\ history[c] \subseteq history'[c]
                         /\ (history[c] # {} => onDisk' \in history'[c])
  <2> TAKE c \in Clients
  <2>1. onDisk' \in [Sources -> Contents]
    BY <1>1, KnowledgeAssumption DEF Disks, Contents
  <2>2. history'[c] = IF history[c] = {} THEN {} ELSE history[c] \cup {onDisk'}
    BY DEF Edit
  <2> QED  BY <2>1, <2>2, ClientTypes
<1>3. KnowledgeTypeOK'
  BY <1>0, <1>1, <1>2 DEF KnowledgeInv, KnowledgeTypeOK, Edit, Disks
<1>4. ASSUME NEW c \in Clients PROVE ClientInv(client[c], index, onDisk', history'[c])
  <2>1. ClientInv(client[c], index, onDisk, history[c]) /\ client[c] \in ClientRecord
    BY ClientTypes
  <2>2. \A q \in Sources : /\ onDisk[q] \in Int /\ onDisk'[q] \in Int /\ onDisk[q] <= onDisk'[q]
                           /\ client[c].read[q] \in Int
    BY <1>1, <2>1, Numbers, KnowledgeAssumption DEF Disks, ClientRecord, Contents
  <2>3. \A q \in Sources : client[c].read[q] <= onDisk'[q]
    <3> TAKE q \in Sources
    <3>1. client[c].read[q] <= onDisk[q]
      BY <2>1 DEF ClientInv
    <3> QED  BY <2>2, <3>1
  <2>4. ASSUME client[c].step = "audit again"
        PROVE  \E d \in history'[c] : \A q \in Sources : Indexed(client[c].rows[q]) =>
                 /\ client[c].read[q] <= d[q] /\ d[q] <= onDisk'[q]
                 /\ q \notin client[c].left => client[c].read[q] = d[q]
    <3>1. PICK d \in history[c] : \A q \in Sources : Indexed(client[c].rows[q]) =>
                 /\ client[c].read[q] <= d[q] /\ d[q] <= onDisk[q]
                 /\ q \notin client[c].left => client[c].read[q] = d[q]
      BY <2>1, <2>4 DEF ClientInv
    <3>2. \A q \in Sources : d[q] \in Int
      BY ClientTypes, KnowledgeAssumption DEF Contents
    <3>3. \A q \in Sources : d[q] <= onDisk[q] => d[q] <= onDisk'[q]
      BY <2>2, <3>2
    <3> QED  BY <1>2, <3>1, <3>3
  <2> QED  BY <1>2, <2>1, <2>3, <2>4 DEF ClientInv
<1>5. \A q \in Sources : index'[q].sha <= onDisk'[q]
  <2> TAKE q \in Sources
  <2>1. index[q].sha \in Int /\ onDisk[q] \in Int /\ onDisk'[q] \in Int /\ index[q].sha <= onDisk[q]
    BY <1>1, KnowledgeAssumption DEF KnowledgeInv, KnowledgeTypeOK, Disks, Contents
  <2> QED  BY <1>0, <1>1, <2>1
<1> QED  BY <1>0, <1>3, <1>4, <1>5 DEF KnowledgeInv

\* Every step keeps the invariant.
LEMMA KnowledgeStepInv == KnowledgeInv /\ [KnowledgeNext]_knowledgeVars => KnowledgeInv'
<1> SUFFICES ASSUME KnowledgeInv, [KnowledgeNext]_knowledgeVars PROVE KnowledgeInv'
  OBVIOUS
<1>1. CASE UNCHANGED knowledgeVars
  BY <1>1 DEF knowledgeVars, KnowledgeInv, KnowledgeTypeOK
<1>2. CASE KnowledgeNext
  BY <1>2, EditStep, AddSteps, ReadSteps, OtherSteps, IndexSteps DEF KnowledgeNext
<1> QED  BY <1>1, <1>2

\* Table, disk and clients keep their types (knowledge in core.py).
THEOREM KnowledgeTypes == KnowledgeSpec => []KnowledgeTypeOK
<1>1. KnowledgeInv => KnowledgeTypeOK
  BY DEF KnowledgeInv
<1> QED  BY <1>1, KnowledgeInitInv, KnowledgeStepInv, PTL DEF KnowledgeSpec

\* A refresh writes a state that the disk was in at one instant, for any number
\* of files, clients and edits: the second audit finds every file as the first
\* one read it, so between the two the disk was as it is written.
THEOREM SnapshotTheorem == KnowledgeSpec => RefreshIsSnapshot
<1>1. ASSUME KnowledgeInv, KnowledgeNext PROVE WritesSnapshot
  <2> SUFFICES ASSUME NEW c \in Clients, client[c].step = "audit again", index' # index,
                      client'[c].step = "idle"
               PROVE  \E d \in history[c] : \A s \in Scope : index'[s].sha = d[s]
    BY DEF WritesSnapshot
  <2>0. client \in [Clients -> ClientRecord]
    BY <1>1 DEF KnowledgeInv, KnowledgeTypeOK, ClientRecord, IndexRows
  <2>1. Update(c)
    <3>1. PICK b \in Clients : Update(b) \/ \E s \in Sources : Store(b, s)
      BY <1>1 DEF KnowledgeNext, Edit, BeginAdd, Search, BeginRefresh, StartAgain, BeginRun,
            OpenAdmission, Admit, RefuseClient, ReadToAdd, Audit, AuditAgain, Check, Recheck
    <3>2. b = c
      BY <2>0, <3>1 DEF Update, Store, StopClient
    <3> QED  BY <3>1, <3>2 DEF Store
  <2>2. PICK d \in history[c] : \A q \in Sources : Indexed(client[c].rows[q]) =>
           /\ client[c].read[q] <= d[q] /\ d[q] <= onDisk[q]
           /\ q \notin client[c].left => client[c].read[q] = d[q]
    BY <1>1, ClientTypes DEF ClientInv
  <2>3. \A s \in Scope : client[c].read[s] = d[s]
    BY <2>1, <2>2 DEF Update, RowsUnchanged, Scope
  <2>4. \A s \in Scope : index'[s].sha = client[c].read[s]
    <3>1. \A s \in Sources : index[s] \in [sha : Contents, stamp : Nat] /\ client[c].read[s] \in Contents
      BY <1>1, <2>0, ClientTypes DEF IndexRows, ClientRecord
    <3>2. \A s \in Scope : index'[s] = Stored(index[s], client[c].read[s])
      BY <2>1 DEF Update, Scope
    <3> TAKE s \in Scope
    <3>3. Stored(index[s], client[c].read[s]).sha = client[c].read[s]
      BY <3>1, StoredRow DEF Scope
    <3> QED  BY <3>2, <3>3
  <2> QED  BY <2>3, <2>4
<1>2. KnowledgeInv /\ [KnowledgeNext]_knowledgeVars => [WritesSnapshot]_knowledgeVars
  BY <1>1
<1> QED  BY <1>2, KnowledgeInitInv, KnowledgeStepInv, PTL DEF KnowledgeSpec, RefreshIsSnapshot

\* A job is admitted with the index as it is: a row that was read and still has
\* its stamp was not written since.
THEOREM CurrentEvidenceTheorem == KnowledgeSpec => AdmitsCurrentEvidence
<1>1. ASSUME KnowledgeInv, KnowledgeNext PROVE QuotesTheIndex
  <2> SUFFICES ASSUME NEW c \in Clients, client[c].step = "recheck", client'[c].step = "admitted",
                      NEW s \in Sources
               PROVE  client[c].read[s] \in {Unseen, index[s].sha}
    BY DEF QuotesTheIndex
  <2>0. client \in [Clients -> ClientRecord]
    BY <1>1 DEF KnowledgeInv, KnowledgeTypeOK, ClientRecord, IndexRows
  <2>1. index = client[c].rows
    <3>1. \E b \in Clients : Admit(b)
      <4>1. CASE \E q \in Sources : Edit(q)
        BY <4>1 DEF Edit
      <4>2. ASSUME NEW b \in Clients, NEW files \in SUBSET Sources, BeginAdd(b, files) \/ Search(b, files)
            PROVE  FALSE
        <5>1. client'[c].step # "admitted"
          BY <2>0, <4>2 DEF BeginAdd, Search, StartClient, ClientAtRest, ClientRecord
        <5> QED  BY <5>1
      <4>3. ASSUME NEW b \in Clients, \/ BeginRefresh(b) \/ StartAgain(b) \/ Update(b)
                                      \/ BeginRun(b) \/ OpenAdmission(b) \/ RefuseClient(b)
            PROVE  FALSE
        <5>1. CASE BeginRefresh(b) \/ BeginRun(b)
          BY <2>0, <5>1 DEF BeginRefresh, BeginRun, StartClient, ClientAtRest, ClientRecord
        <5>2. CASE StartAgain(b) \/ OpenAdmission(b)
          BY <2>0, <5>2 DEF StartAgain, OpenAdmission, ClientRecord
        <5>3. CASE Update(b) \/ RefuseClient(b)
          <6>1. client' = [client EXCEPT ![b] = ClientAtRest]
            BY <5>3 DEF Update, RefuseClient, StopClient
          <6> QED  BY <2>0, <6>1 DEF ClientAtRest, ClientRecord
        <5> QED  BY <4>3, <5>1, <5>2, <5>3
      <4>4. ASSUME NEW b \in Clients, NEW q \in Sources,
                   \/ ReadToAdd(b, q) \/ Store(b, q) \/ Audit(b, q)
                   \/ AuditAgain(b, q) \/ Check(b, q) \/ Recheck(b, q)
            PROVE  FALSE
        <5>1. client'[c].step # "admitted"
          <6>1. CASE ReadToAdd(b, q)
            BY <2>0, <6>1 DEF ReadToAdd, ClientRecord
          <6>2. CASE Store(b, q)
            BY <2>0, <6>2 DEF Store, ClientAtRest, ClientRecord
          <6>3. CASE Audit(b, q) \/ AuditAgain(b, q)
            BY <2>0, <6>3 DEF Audit, AuditAgain, Read, ClientRecord
          <6>4. CASE Check(b, q) \/ Recheck(b, q)
            BY <2>0, <6>4 DEF Check, Recheck, Compare, ClientRecord
          <6> QED  BY <4>4, <6>1, <6>2, <6>3, <6>4
        <5> QED  BY <5>1
      <4> QED  BY <1>1, <4>1, <4>2, <4>3, <4>4 DEF KnowledgeNext
    <3>2. PICK b \in Clients : Admit(b)
      BY <3>1
    <3>3. b = c
      BY <2>0, <3>2 DEF Admit
    <3> QED  BY <3>2, <3>3 DEF Admit, RowsUnchanged
  <2> QED  BY <1>1, <2>1, ClientTypes DEF ClientInv
<1>2. KnowledgeInv /\ [KnowledgeNext]_knowledgeVars => [QuotesTheIndex]_knowledgeVars
  BY <1>1
<1> QED  BY <1>2, KnowledgeInitInv, KnowledgeStepInv, PTL DEF KnowledgeSpec, AdmitsCurrentEvidence

----------------------------------------------------------------------------
(* KnowledgeIndex implements EvidenceBase *)

\* What holds of one client's history, and what a client knows that reads the
\* files again with the write lock: of some moment since it took the lock, no
\* file was behind its row, and those it has read agreed with theirs.
InstantOf(k, table, files, past) ==
  /\ past \subseteq Disks
  /\ k.step \notin {"audit", "audit again", "recheck"} => past = {}
  /\ k.step = "recheck" =>
       \E d \in past : \A s \in Sources : Indexed(table[s]) =>
          /\ table[s].sha <= d[s] /\ d[s] <= files[s]
          /\ s \notin k.left => table[s].sha = d[s]

InstantInv ==
  /\ \A s \in Sources : Indexed(index[s]) <=> index[s].sha # Unseen
  /\ \A c \in Clients : InstantOf(client[c], index, onDisk, history[c])

LEMMA InstantInitInv == KnowledgeInit => InstantInv
  BY DEF KnowledgeInit, InstantInv, InstantOf, NoRows, NotIndexed, Indexed, ClientAtRest

\* The clients before and after a step, typed.
LEMMA TypesOfAStep ==
  ASSUME KnowledgeInv, KnowledgeInv'
  PROVE  /\ client \in [Clients -> ClientRecord] /\ client' \in [Clients -> ClientRecord]
         /\ index \in IndexRows /\ index' \in IndexRows
         /\ history \in [Clients -> SUBSET [Sources -> Contents]]
         /\ history' \in [Clients -> SUBSET [Sources -> Contents]]
         /\ \A s \in Sources : index[s].sha \in Int /\ index[s].stamp \in Nat /\ onDisk[s] \in Nat
         /\ onDisk \in Disks /\ onDisk' \in Disks
  BY KnowledgeAssumption
  DEF KnowledgeInv, KnowledgeTypeOK, ClientRecord, IndexRows, Disks, Contents

\* One client moves, and the table and the files stay.
LEMMA InstantMoves ==
  ASSUME InstantInv, NEW c \in Clients, UNCHANGED <<onDisk, index>>,
         \A d \in Clients \ {c} : client'[d] = client[d] /\ history'[d] = history[d],
         InstantOf(client'[c], index, onDisk, history'[c])
  PROVE  InstantInv'
  BY DEF InstantInv

\* What a client quotes changes when it moves from or to an admitted job.
LEMMA QuotedMoves ==
  ASSUME NEW c \in Clients, client \in [Clients -> ClientRecord],
         client' \in [Clients -> ClientRecord],
         \A d \in Clients \ {c} : client'[d] = client[d]
  PROVE  Quoted' = [Quoted EXCEPT ![c] = IF client'[c].step = "admitted" THEN client'[c].read
                                                                       ELSE None]
  BY DEF Quoted

\* Clients that read, search or wait for the lock tell nobody.
LEMMA QuietStep ==
  ASSUME KnowledgeInv, KnowledgeInv', NEW c \in Clients,
         \/ \E files \in SUBSET Sources : BeginAdd(c, files) \/ Search(c, files)
         \/ BeginRun(c) \/ \E s \in Sources : ReadToAdd(c, s) \/ Check(c, s)
  PROVE  /\ UNCHANGED <<onDisk, index, history>>
         /\ \A d \in Clients \ {c} : client'[d] = client[d]
         /\ client[c].step \notin {"audit", "audit again", "recheck", "admitted"}
         /\ client'[c].step \notin {"audit", "audit again", "recheck", "admitted"}
<1>0. client \in [Clients -> ClientRecord]  BY TypesOfAStep
<1>1. ASSUME NEW files \in SUBSET Sources, BeginAdd(c, files)
      PROVE  /\ \A d \in Clients \ {c} : client'[d] = client[d]
             /\ client[c].step = "idle" /\ client'[c].step = "add"
  BY <1>0, <1>1 DEF BeginAdd, StartClient, ClientAtRest
<1>2. ASSUME NEW files \in SUBSET Sources, Search(c, files)
      PROVE  /\ \A d \in Clients \ {c} : client'[d] = client[d]
             /\ client[c].step = "check" /\ client'[c].step = "submit"
  BY <1>0, <1>2 DEF Search, ClientRecord
<1>3. ASSUME BeginRun(c)
      PROVE  /\ \A d \in Clients \ {c} : client'[d] = client[d]
             /\ client[c].step = "idle" /\ client'[c].step = "check"
  BY <1>0, <1>3 DEF BeginRun, StartClient, ClientAtRest
<1>4. ASSUME NEW s \in Sources, ReadToAdd(c, s)
      PROVE  /\ \A d \in Clients \ {c} : client'[d] = client[d]
             /\ client[c].step = "add" /\ client'[c].step = "store"
  BY <1>0, <1>4 DEF ReadToAdd, ClientRecord
<1>5. ASSUME NEW s \in Sources, Check(c, s)
      PROVE  /\ \A d \in Clients \ {c} : client'[d] = client[d]
             /\ client[c].step = "check" /\ client'[c].step = "check"
  BY <1>0, <1>5 DEF Check, Compare, ClientRecord
<1>6. UNCHANGED <<onDisk, index, history>>
  BY DEF BeginAdd, Search, BeginRun, ReadToAdd, Check
<1> QED  BY <1>1, <1>2, <1>3, <1>4, <1>5, <1>6

\* A refresh reads on.
LEMMA AuditStep ==
  ASSUME KnowledgeInv, KnowledgeInv', NEW c \in Clients,
         StartAgain(c) \/ \E s \in Sources : Audit(c, s) \/ AuditAgain(c, s)
  PROVE  /\ UNCHANGED <<onDisk, index, history>>
         /\ \A d \in Clients \ {c} : client'[d] = client[d]
         /\ client[c].step \in {"audit", "audit again"}
         /\ client'[c].step \in {"audit", "audit again"}
<1>0. client \in [Clients -> ClientRecord]  BY TypesOfAStep
<1>1. CASE StartAgain(c)  BY <1>0, <1>1 DEF StartAgain, ClientRecord
<1>2. ASSUME NEW s \in Sources, Audit(c, s) \/ AuditAgain(c, s)
      PROVE  /\ UNCHANGED <<onDisk, index, history>>
             /\ \A d \in Clients \ {c} : client'[d] = client[d]
             /\ client[c].step \in {"audit", "audit again"}
             /\ client'[c].step = client[c].step
  BY <1>0, <1>2 DEF Audit, AuditAgain, Read, ClientRecord
<1> QED  BY <1>1, <1>2

\* A refresh or an admission begins to read, from the files of that moment.
LEMMA BeginStep ==
  ASSUME KnowledgeInv, KnowledgeInv', NEW c \in Clients, BeginRefresh(c) \/ OpenAdmission(c)
  PROVE  /\ UNCHANGED <<onDisk, index>> /\ history' = [history EXCEPT ![c] = {onDisk}]
         /\ \A d \in Clients \ {c} : client'[d] = client[d]
         /\ client[c].step \in {"idle", "submit"}
         /\ \/ client'[c].step = "audit"
            \/ client'[c].step = "recheck" /\ client'[c].left = Scope
<1>0. client \in [Clients -> ClientRecord]  BY TypesOfAStep
<1>1. CASE BeginRefresh(c)  BY <1>0, <1>1 DEF BeginRefresh, StartClient, ClientAtRest
<1>2. CASE OpenAdmission(c)  BY <1>0, <1>2 DEF OpenAdmission, ClientRecord
<1> QED  BY <1>1, <1>2

\* A client stops, with or without having written.
LEMMA StopStep ==
  ASSUME KnowledgeInv, KnowledgeInv', NEW c \in Clients, StopClient(c)
  PROVE  /\ \A d \in Clients \ {c} : client'[d] = client[d] /\ history'[d] = history[d]
         /\ client'[c].step = "idle" /\ history'[c] = {}
         /\ history' = [history EXCEPT ![c] = {}]
  BY TypesOfAStep DEF StopClient, ClientAtRest

\* A client is admitted with what it holds.
LEMMA AdmitStep ==
  ASSUME KnowledgeInv, KnowledgeInv', NEW c \in Clients, Admit(c)
  PROVE  /\ UNCHANGED <<onDisk, index>> /\ history' = [history EXCEPT ![c] = {}]
         /\ \A d \in Clients \ {c} : client'[d] = client[d]
         /\ client[c].step = "recheck" /\ client[c].left = {} /\ index = client[c].rows
         /\ client'[c].step = "admitted" /\ client'[c].read = client[c].read
  BY TypesOfAStep DEF Admit, RowsUnchanged, ClientRecord

\* A file is stored that was read and may have been edited since.
LEMMA StoreStep ==
  ASSUME KnowledgeInv, KnowledgeInv', NEW c \in Clients, NEW s \in Sources, Store(c, s)
  PROVE  /\ UNCHANGED <<onDisk, history>> /\ IndexUnlocked(c)
         /\ \A d \in Clients \ {c} : client'[d] = client[d]
         /\ client[c].step = "store" /\ client'[c].step \in {"idle", "add"}
         /\ client[c].read[s] \in 0..onDisk[s]
         /\ index' = [index EXCEPT ![s] = Stored(index[s], client[c].read[s])]
         /\ index'[s].sha = client[c].read[s] /\ index'[s].sha # Unseen
         /\ Indexed(index[s]) => Indexed(index'[s])
         /\ index[s].sha # client[c].read[s] => Indexed(index'[s])
<1>0. /\ client \in [Clients -> ClientRecord] /\ index \in IndexRows /\ onDisk[s] \in Nat
      /\ client[c].read[s] \in Contents /\ client[c].read[s] <= onDisk[s]
  BY TypesOfAStep, ClientTypes DEF ClientInv, ClientRecord
<1>1. client[c].read[s] # Unseen  BY DEF Store
<1>2. client[c].read[s] \in 0..onDisk[s]
  BY <1>0, <1>1, KnowledgeAssumption DEF Contents, Unseen
<1>3. /\ \A d \in Clients \ {c} : client'[d] = client[d]
      /\ client'[c].step \in {"idle", "add"}
  <2>1. CASE client[c].left = {}
    BY <1>0, <2>1 DEF Store, ClientAtRest
  <2>2. CASE client[c].left # {}
    BY <1>0, <2>2 DEF Store, ClientAtRest
  <2> QED  BY <2>1, <2>2
<1>4. index' = [index EXCEPT ![s] = Stored(index[s], client[c].read[s])]  BY DEF Store
<1>5. index'[s] = Stored(index[s], client[c].read[s]) /\ index[s].stamp \in Nat
  BY <1>0, <1>4 DEF IndexRows
<1>6. /\ index'[s].sha = client[c].read[s]
      /\ Indexed(index[s]) => Indexed(index'[s])
      /\ index[s].sha # client[c].read[s] => Indexed(index'[s])
  BY <1>5 DEF Stored, Indexed
<1> QED  BY <1>1, <1>2, <1>3, <1>4, <1>6 DEF Store

\* A refresh writes the files of one moment since it began, of all it knows.
LEMMA UpdateStep ==
  ASSUME KnowledgeInv, KnowledgeInv', InstantInv, NEW c \in Clients, Update(c)
  PROVE  /\ UNCHANGED onDisk /\ IndexUnlocked(c) /\ StopClient(c)
         /\ client[c].step = "audit again"
         /\ \E d \in history[c] : \A s \in Sources :
              IF Indexed(index[s]) THEN index'[s].sha = d[s] /\ Indexed(index'[s])
                                   ELSE index'[s] = index[s]
<1>1. client[c].step = "audit again" /\ client[c].left = {} /\ index = client[c].rows
  BY DEF Update, RowsUnchanged
<1>2. PICK d \in history[c] : \A q \in Sources : Indexed(client[c].rows[q]) =>
         /\ client[c].read[q] <= d[q] /\ d[q] <= onDisk[q]
         /\ q \notin client[c].left => client[c].read[q] = d[q]
  BY <1>1, ClientTypes DEF ClientInv
<1>3. ASSUME NEW s \in Sources, Indexed(index[s])
      PROVE  index'[s].sha = d[s] /\ Indexed(index'[s])
  <2>1. client[c].read[s] = d[s]  BY <1>1, <1>2, <1>3
  <2>2. index'[s] = Stored(index[s], client[c].read[s])  BY <1>3 DEF Update, Scope
  <2>3. index[s].stamp \in Nat  BY TypesOfAStep
  <2> QED  BY <1>3, <2>1, <2>2, <2>3 DEF Stored, Indexed
<1>4. \A s \in Sources : ~Indexed(index[s]) => index'[s] = index[s]
  BY DEF Update, Scope
<1> QED  BY <1>1, <1>2, <1>3, <1>4 DEF Update

\* While a client has the lock for its admission, a write of the table is none
\* of another client's.
LEMMA TableInstant ==
  ASSUME InstantInv, NEW c \in Clients, IndexUnlocked(c), UNCHANGED onDisk,
         \A d \in Clients \ {c} : client'[d] = client[d] /\ history'[d] = history[d],
         client'[c].step \notin {"audit", "audit again", "recheck"}, history'[c] = {},
         \A s \in Sources : Indexed(index'[s]) <=> index'[s].sha # Unseen
  PROVE  InstantInv'
<1>1. ASSUME NEW d \in Clients  PROVE InstantOf(client'[d], index', onDisk', history'[d])
  <2>1. CASE d = c  BY <2>1 DEF InstantOf
  <2>2. CASE d # c
    <3>1. client[d].step # "recheck"  BY <2>2 DEF IndexUnlocked
    <3> QED  BY <2>2, <3>1 DEF InstantInv, InstantOf
  <2> QED  BY <2>1, <2>2
<1> QED  BY <1>1 DEF InstantInv

\* An edit leaves every moment that was where it is.
LEMMA EditInstant ==
  ASSUME KnowledgeInv, KnowledgeInv', InstantInv, NEW s \in Sources, Edit(s)
  PROVE  InstantInv'
<1>1. UNCHANGED <<index, client>>  BY DEF Edit
<1>2. \A q \in Sources : onDisk[q] \in Nat /\ onDisk'[q] \in Nat /\ onDisk[q] <= onDisk'[q]
  <2>1. onDisk \in Disks /\ onDisk' = [onDisk EXCEPT ![s] = @ + 1]  BY TypesOfAStep DEF Edit
  <2> QED  BY <2>1, KnowledgeAssumption DEF Disks
<1>3. ASSUME NEW c \in Clients  PROVE InstantOf(client[c], index, onDisk', history'[c])
  <2>0. InstantOf(client[c], index, onDisk, history[c])  BY DEF InstantInv
  <2>1. history'[c] = IF history[c] = {} THEN {} ELSE history[c] \cup {onDisk'}
    BY DEF Edit
  <2>2. history'[c] \subseteq Disks /\ history[c] \subseteq history'[c]
    BY <2>0, <2>1, TypesOfAStep DEF InstantOf
  <2>3. ASSUME client[c].step = "recheck"
        PROVE  \E d \in history'[c] : \A q \in Sources : Indexed(index[q]) =>
                  /\ index[q].sha <= d[q] /\ d[q] <= onDisk'[q]
                  /\ q \notin client[c].left => index[q].sha = d[q]
    <3>1. PICK d \in history[c] : \A q \in Sources : Indexed(index[q]) =>
                  /\ index[q].sha <= d[q] /\ d[q] <= onDisk[q]
                  /\ q \notin client[c].left => index[q].sha = d[q]
      BY <2>0, <2>3 DEF InstantOf
    <3>2. d \in Disks  BY <2>0 DEF InstantOf
    <3>3. \A q \in Sources : d[q] \in Int  BY <3>2, KnowledgeAssumption DEF Disks
    <3>4. \A q \in Sources : d[q] <= onDisk[q] => d[q] <= onDisk'[q]  BY <1>2, <3>3
    <3> QED  BY <2>2, <3>1, <3>4
  <2> QED  BY <2>0, <2>1, <2>2, <2>3 DEF InstantOf
<1> QED  BY <1>1, <1>3 DEF InstantInv

\* One more file is found as its row says: as no file was ahead of its last
\* reading, it was so at that moment already.
LEMMA RecheckInstant ==
  ASSUME KnowledgeInv, KnowledgeInv', InstantInv, NEW c \in Clients, NEW s \in Sources,
         Recheck(c, s)
  PROVE  InstantInv'
<1>0. client \in [Clients -> ClientRecord]  BY TypesOfAStep
<1>1. /\ client'[c].step = "recheck" /\ client'[c].left = client[c].left \ {s}
      /\ client[c].step = "recheck" /\ onDisk[s] = index[s].sha
      /\ \A d \in Clients \ {c} : client'[d] = client[d]
      /\ UNCHANGED <<onDisk, index, history>>
  BY <1>0 DEF Recheck, Compare, ClientRecord
<1>2. InstantOf(client[c], index, onDisk, history[c])  BY DEF InstantInv
<1>3. PICK d \in history[c] : \A q \in Sources : Indexed(index[q]) =>
              /\ index[q].sha <= d[q] /\ d[q] <= onDisk[q]
              /\ q \notin client[c].left => index[q].sha = d[q]
  BY <1>1, <1>2 DEF InstantOf
<1>4. d[s] \in Int /\ onDisk[s] \in Int /\ index[s].sha \in Int
  <2>1. d \in Disks  BY <1>2 DEF InstantOf
  <2> QED  BY <2>1, TypesOfAStep, KnowledgeAssumption DEF Disks
<1>5. Indexed(index[s]) => index[s].sha = d[s]
  BY <1>1, <1>3, <1>4
<1>6. \A q \in Sources : Indexed(index[q]) =>
              /\ index[q].sha <= d[q] /\ d[q] <= onDisk[q]
              /\ q \notin client'[c].left => index[q].sha = d[q]
  BY <1>1, <1>3, <1>5
<1>7. InstantOf(client'[c], index, onDisk, history'[c])
  BY <1>1, <1>2, <1>6 DEF InstantOf
<1> QED  BY <1>1, <1>7, InstantMoves

\* Every step keeps what clients know of their moments.
LEMMA InstantStepInv ==
  ASSUME KnowledgeInv, KnowledgeInv', InstantInv, [KnowledgeNext]_knowledgeVars
  PROVE  InstantInv'
<1>1. CASE UNCHANGED knowledgeVars
  BY <1>1 DEF knowledgeVars, InstantInv
<1>2. ASSUME NEW c \in Clients,
             \/ \E files \in SUBSET Sources : BeginAdd(c, files) \/ Search(c, files)
             \/ BeginRun(c) \/ \E s \in Sources : ReadToAdd(c, s) \/ Check(c, s)
      PROVE  InstantInv'
  <2>1. /\ UNCHANGED <<onDisk, index, history>>
        /\ \A d \in Clients \ {c} : client'[d] = client[d]
        /\ client[c].step \notin {"audit", "audit again", "recheck"}
        /\ client'[c].step \notin {"audit", "audit again", "recheck"}
    BY <1>2, QuietStep
  <2>2. InstantOf(client'[c], index, onDisk, history'[c])
    BY <2>1 DEF InstantInv, InstantOf
  <2> QED  BY <2>1, <2>2, InstantMoves
<1>3. ASSUME NEW c \in Clients,
             StartAgain(c) \/ \E s \in Sources : Audit(c, s) \/ AuditAgain(c, s)
      PROVE  InstantInv'
  <2>1. /\ UNCHANGED <<onDisk, index, history>>
        /\ \A d \in Clients \ {c} : client'[d] = client[d]
        /\ client'[c].step \in {"audit", "audit again"}
    BY <1>3, AuditStep
  <2>2. InstantOf(client'[c], index, onDisk, history'[c])
    BY <2>1 DEF InstantInv, InstantOf
  <2> QED  BY <2>1, <2>2, InstantMoves
<1>4. ASSUME NEW c \in Clients, BeginRefresh(c) \/ OpenAdmission(c)
      PROVE  InstantInv'
  <2>1. /\ UNCHANGED <<onDisk, index>> /\ history' = [history EXCEPT ![c] = {onDisk}]
        /\ \A d \in Clients \ {c} : client'[d] = client[d]
        /\ \/ client'[c].step = "audit"
           \/ client'[c].step = "recheck" /\ client'[c].left = Scope
    BY <1>4, BeginStep
  <2>2. history'[c] = {onDisk} /\ \A d \in Clients \ {c} : history'[d] = history[d]
    BY <2>1, TypesOfAStep
  <2>3. \A s \in Sources : index[s].sha <= onDisk[s] /\ onDisk[s] <= onDisk[s]
    BY Numbers
  <2>4. InstantOf(client'[c], index, onDisk, {onDisk})
    BY <2>1, <2>3, TypesOfAStep DEF InstantOf, Scope
  <2> QED  BY <2>1, <2>2, <2>4, InstantMoves
<1>5. ASSUME NEW c \in Clients, RefuseClient(c)  PROVE InstantInv'
  <2>1. UNCHANGED <<onDisk, index>> /\ StopClient(c)  BY <1>5 DEF RefuseClient
  <2>2. InstantOf(client'[c], index, onDisk, history'[c])
    BY <2>1, StopStep DEF InstantOf
  <2> QED  BY <2>1, <2>2, StopStep, InstantMoves
<1>6. ASSUME NEW c \in Clients, Admit(c)  PROVE InstantInv'
  <2>1. /\ UNCHANGED <<onDisk, index>> /\ history' = [history EXCEPT ![c] = {}]
        /\ \A d \in Clients \ {c} : client'[d] = client[d]
        /\ client'[c].step = "admitted"
    BY <1>6, AdmitStep
  <2>2. history'[c] = {} /\ \A d \in Clients \ {c} : history'[d] = history[d]
    BY <2>1, TypesOfAStep
  <2>3. InstantOf(client'[c], index, onDisk, history'[c])  BY <2>1, <2>2 DEF InstantOf
  <2> QED  BY <2>1, <2>2, <2>3, InstantMoves
<1>7. ASSUME NEW c \in Clients, NEW s \in Sources, Store(c, s)  PROVE InstantInv'
  <2>1. /\ UNCHANGED <<onDisk, history>> /\ IndexUnlocked(c)
        /\ \A d \in Clients \ {c} : client'[d] = client[d]
        /\ client[c].step = "store" /\ client'[c].step \in {"idle", "add"}
    BY <1>7, StoreStep
  <2>2. history'[c] = {}  BY <2>1 DEF InstantInv, InstantOf
  <2>3. ASSUME NEW q \in Sources  PROVE Indexed(index'[q]) <=> index'[q].sha # Unseen
    <3>1. CASE q = s
      BY <1>7, <3>1, StoreStep DEF InstantInv
    <3>2. CASE q # s
      BY <1>7, <3>2, StoreStep, TypesOfAStep DEF InstantInv, IndexRows
    <3> QED  BY <3>1, <3>2
  <2> QED  BY <2>1, <2>2, <2>3, TableInstant
<1>8. ASSUME NEW c \in Clients, Update(c)  PROVE InstantInv'
  <2>1. UNCHANGED onDisk /\ IndexUnlocked(c) /\ StopClient(c)  BY <1>8, UpdateStep
  <2>2. PICK d \in history[c] : \A s \in Sources :
          IF Indexed(index[s]) THEN index'[s].sha = d[s] /\ Indexed(index'[s])
                               ELSE index'[s] = index[s]
    BY <1>8, UpdateStep
  <2>3. \A s \in Sources : d[s] # Unseen
    <3>1. d \in Disks  BY DEF InstantInv, InstantOf
    <3> QED  BY <3>1, KnowledgeAssumption DEF Disks, Unseen
  <2>4. ASSUME NEW s \in Sources  PROVE Indexed(index'[s]) <=> index'[s].sha # Unseen
    <3>1. CASE Indexed(index[s])  BY <2>2, <2>3, <3>1
    <3>2. CASE ~Indexed(index[s])
      <4>1. index'[s] = index[s]  BY <2>2, <3>2
      <4> QED  BY <4>1 DEF InstantInv
    <3> QED  BY <3>1, <3>2
  <2> QED  BY <2>1, <2>4, StopStep, TableInstant
<1> QED
  BY <1>1, <1>2, <1>3, <1>4, <1>5, <1>6, <1>7, <1>8, EditInstant, RecheckInstant
  DEF KnowledgeNext

\* The steps that the abstract base does not see.
LEMMA UnseenSteps ==
  ASSUME KnowledgeInv, KnowledgeInv', NEW c \in Clients, UNCHANGED <<onDisk, index, history>>,
         \A d \in Clients \ {c} : client'[d] = client[d],
         client[c].step # "admitted", client'[c].step # "admitted"
  PROVE  UNCHANGED EB!vars
<1>1. Quoted' = Quoted  BY TypesOfAStep DEF Quoted
<1> QED  BY <1>1 DEF EB!vars, Shown

\* What is shown is what is indexed.
LEMMA KnownIsIndexed ==
  ASSUME InstantInv
  PROVE  /\ EB!Known = {s \in Sources : Indexed(index[s])}
         /\ \A s \in Sources : Shown[s] = index[s].sha /\ (~Indexed(index[s]) => Shown[s] = Unseen)
  BY DEF InstantInv, EB!Known, EB!Unseen, Unseen, Shown

LEMMA RefreshRefines ==
  ASSUME KnowledgeInv, KnowledgeInv', InstantInv, NEW c \in Clients, Update(c)
  PROVE  EB!Refresh(c)
<1>1. PICK d \in history[c] : \A s \in Sources :
        IF Indexed(index[s]) THEN index'[s].sha = d[s] /\ Indexed(index'[s])
                             ELSE index'[s] = index[s]
  BY UpdateStep
<1>2. Shown' = EB!Only(EB!Known, d)
  BY <1>1, KnownIsIndexed DEF Shown, EB!Only, EB!Unseen, Unseen
<1>3. Quoted' = Quoted
  <2>1. StopClient(c) /\ client[c].step = "audit again"  BY UpdateStep
  <2> QED  BY <2>1, StopStep, TypesOfAStep DEF Quoted
<1> QED  BY <1>1, <1>2, <1>3, UpdateStep, StopStep DEF EB!Refresh

LEMMA AdmitRefines ==
  ASSUME KnowledgeInv, KnowledgeInv', InstantInv, NEW c \in Clients, Admit(c)
  PROVE  EB!Next
<1>1. /\ UNCHANGED <<onDisk, index>> /\ history' = [history EXCEPT ![c] = {}]
      /\ \A d \in Clients \ {c} : client'[d] = client[d]
      /\ client[c].step = "recheck" /\ client[c].left = {} /\ index = client[c].rows
      /\ client'[c].step = "admitted" /\ client'[c].read = client[c].read
  BY AdmitStep
<1>2. PICK d \in history[c] : \A q \in Sources : Indexed(index[q]) => index[q].sha = d[q]
  BY <1>1 DEF InstantInv, InstantOf
<1>3. Shown = EB!Only(EB!Known, d)
  BY <1>2, KnownIsIndexed DEF Shown, EB!Only, EB!Unseen, Unseen
<1> DEFINE quoted == {s \in Sources : client[c].read[s] # Unseen}
<1>4. \A s \in Sources : client[c].read[s] # Unseen => client[c].read[s] = index[s].sha
  BY <1>1, ClientTypes DEF ClientInv
<1>5. quoted \subseteq EB!Known
  BY <1>4, KnownIsIndexed DEF InstantInv
<1>6. client[c].read = EB!Only(quoted, Shown)
  <2>1. client[c].read \in [Sources -> Contents]  BY TypesOfAStep DEF ClientRecord
  <2> QED  BY <1>4, <2>1 DEF EB!Only, EB!Unseen, Unseen, Shown
<1>7. Quoted[c] = None  BY <1>1 DEF Quoted
<1>8. Quoted' = [Quoted EXCEPT ![c] = client[c].read]
  BY <1>1, QuotedMoves, TypesOfAStep
<1>9. Shown' = Shown  BY <1>1 DEF Shown
<1> HIDE DEF quoted
<1>10. EB!Admit(c, quoted)
  BY <1>1, <1>2, <1>3, <1>5, <1>6, <1>7, <1>8, <1>9 DEF EB!Admit
<1>11. quoted \in SUBSET Sources  BY <1>5 DEF EB!Known
<1> QED  BY <1>10, <1>11 DEF EB!Next

LEMMA StoreRefines ==
  ASSUME KnowledgeInv, KnowledgeInv', NEW c \in Clients, NEW s \in Sources, Store(c, s)
  PROVE  EB!Next
<1>1. /\ UNCHANGED <<onDisk, history>>
      /\ \A d \in Clients \ {c} : client'[d] = client[d]
      /\ client[c].step = "store" /\ client'[c].step \in {"idle", "add"}
      /\ client[c].read[s] \in 0..onDisk[s]
      /\ index' = [index EXCEPT ![s] = Stored(index[s], client[c].read[s])]
      /\ index'[s].sha = client[c].read[s]
  BY StoreStep
<1>2. Shown' = [Shown EXCEPT ![s] = client[c].read[s]]
  BY <1>1, TypesOfAStep DEF Shown, IndexRows
<1>3. Quoted' = Quoted
  BY <1>1, TypesOfAStep DEF Quoted
<1>4. EB!Add(s, client[c].read[s])  BY <1>1, <1>2, <1>3 DEF EB!Add
<1> QED  BY <1>1, <1>4 DEF EB!Next

LEMMA BeginRefines ==
  ASSUME KnowledgeInv, KnowledgeInv', InstantInv, NEW c \in Clients,
         BeginRefresh(c) \/ OpenAdmission(c)
  PROVE  EB!Begin(c)
<1>1. history[c] = {}  BY BeginStep DEF InstantInv, InstantOf
<1>2. Quoted' = Quoted  BY BeginStep, TypesOfAStep DEF Quoted
<1>3. Shown' = Shown  BY BeginStep DEF Shown
<1> QED  BY <1>1, <1>2, <1>3, BeginStep DEF EB!Begin

LEMMA RefuseRefines ==
  ASSUME KnowledgeInv, KnowledgeInv', NEW c \in Clients, RefuseClient(c)
  PROVE  EB!End(c)
<1>1. StopClient(c) /\ UNCHANGED <<onDisk, index>>  BY DEF RefuseClient
<1>2. Quoted' = [Quoted EXCEPT ![c] = None]
  BY <1>1, StopStep, QuotedMoves, TypesOfAStep
<1>3. Shown' = Shown  BY <1>1 DEF Shown
<1> QED  BY <1>1, <1>2, <1>3, StopStep DEF EB!End

\* Every step is one of the abstract base, or unseen there.
LEMMA KnowledgeRefines ==
  ASSUME KnowledgeInv, KnowledgeInv', InstantInv, [KnowledgeNext]_knowledgeVars
  PROVE  [EB!Next]_(EB!vars)
<1>1. CASE UNCHANGED knowledgeVars
  BY <1>1 DEF knowledgeVars, EB!vars, Shown, Quoted
<1>2. ASSUME NEW s \in Sources, Edit(s)  PROVE EB!Next
  <2>1. UNCHANGED <<Shown, Quoted>>  BY <1>2 DEF Edit, Shown, Quoted
  <2>2. EB!Edit(s)  BY <1>2, <2>1 DEF Edit, EB!Edit
  <2> QED  BY <2>2 DEF EB!Next
<1>3. ASSUME NEW c \in Clients,
             \/ \E files \in SUBSET Sources : BeginAdd(c, files) \/ Search(c, files)
             \/ BeginRun(c) \/ \E s \in Sources : ReadToAdd(c, s) \/ Check(c, s)
      PROVE  UNCHANGED EB!vars
  BY <1>3, QuietStep, UnseenSteps
<1>4. ASSUME NEW c \in Clients,
             StartAgain(c) \/ \E s \in Sources : Audit(c, s) \/ AuditAgain(c, s)
      PROVE  UNCHANGED EB!vars
  BY <1>4, AuditStep, UnseenSteps
<1>5. ASSUME NEW c \in Clients, NEW s \in Sources, Recheck(c, s)  PROVE UNCHANGED EB!vars
  <2>1. /\ client'[c].step = "recheck" /\ client[c].step = "recheck"
        /\ \A d \in Clients \ {c} : client'[d] = client[d]
        /\ UNCHANGED <<onDisk, index, history>>
    BY <1>5, TypesOfAStep DEF Recheck, Compare, ClientRecord
  <2> QED  BY <2>1, UnseenSteps
<1>6. ASSUME NEW c \in Clients, BeginRefresh(c) \/ OpenAdmission(c)  PROVE EB!Next
  BY <1>6, BeginRefines DEF EB!Next
<1>7. ASSUME NEW c \in Clients, Update(c)  PROVE EB!Next
  BY <1>7, RefreshRefines DEF EB!Next
<1>8. ASSUME NEW c \in Clients, RefuseClient(c)  PROVE EB!Next
  BY <1>8, RefuseRefines DEF EB!Next
<1> QED
  BY <1>1, <1>2, <1>3, <1>4, <1>5, <1>6, <1>7, <1>8, AdmitRefines, StoreRefines
  DEF KnowledgeNext

\* The index implements the evidence base, for any number of files, clients and
\* edits: what a refresh writes, and what a job is admitted on, agreed with all
\* the files at one moment while it was under way (refresh_knowledge and the
\* admitting transaction of run, core.py).
THEOREM KnowledgeImplementsEvidenceBase == KnowledgeSpec => ImplementsEvidenceBase
<1>1. KnowledgeInit => EB!Init
  BY DEF KnowledgeInit, EB!Init, Shown, Quoted, NoRows, NotIndexed, ClientAtRest, Unseen, EB!Unseen
<1>2. KnowledgeSpec => []KnowledgeInv
  BY KnowledgeInitInv, KnowledgeStepInv, PTL DEF KnowledgeSpec
<1>3. KnowledgeSpec => []InstantInv
  <2>1. KnowledgeInv /\ KnowledgeInv' /\ InstantInv /\ [KnowledgeNext]_knowledgeVars => InstantInv'
    BY InstantStepInv
  <2> QED  BY <1>2, <2>1, InstantInitInv, PTL DEF KnowledgeSpec
<1>4. KnowledgeInv /\ KnowledgeInv' /\ InstantInv /\ [KnowledgeNext]_knowledgeVars
        => [EB!Next]_(EB!vars)
  BY KnowledgeRefines
<1> QED
  BY <1>1, <1>2, <1>3, <1>4, PTL DEF KnowledgeSpec, ImplementsEvidenceBase, EB!Spec

----------------------------------------------------------------------------
(* QualitySupersession *)

\* Jobs, verdicts, the store and the reviewers, typed.
QualityJob == [made : BOOLEAN, parent : Jobs \cup {None}, quoted : 0..MaxSource, good : BOOLEAN]
Verdict == [id : 0..MaxEvaluations, passed : BOOLEAN]
QualityRow == [status : RowStatuses, job : Jobs \cup {None}]
Stores == [jobs : [Jobs -> QualityJob], latest : [Jobs -> Verdict], count : 0..MaxEvaluations,
           row : QualityRow, indexed : 0..MaxSource]
Purposes == {"evaluate", "retire", "review", "second review"}

\* Truth values, as a set that the provers need not take apart.
Truth == BOOLEAN

ReviewerRecord == [step : ReviewerSteps, job : Jobs \cup {None}, seen : 0..6, report : Truth,
             source : 0..MaxSource, store : Stores \cup {None}, purpose : Purposes, sound : Truth]

\* The types of the variables.
QualityTypes == /\ store \in Stores
                /\ store.indexed <= source
                /\ edited \in SUBSET Jobs
                /\ source \in 0..MaxSource
                /\ reviewer \in [Reviewers -> ReviewerRecord]

\* The lineage of a job, and whether it is a candidate, in a given store.
LineageIn(st, j) ==
    LET parentOf(k) == st.jobs[k].parent
        up1 == IF j = None THEN None ELSE parentOf(j)
        up2 == IF up1 = None THEN None ELSE parentOf(up1)
    IN  {up1, up2} \ {None}

CandidateIn(st, j) == st.row.job \in LineageIn(st, j) /\ st.latest[j].passed

\* What a reviewer r has seen of files that are only ever edited, never restored.
ReviewerInv(r, files) ==
  /\ r.step \in {"evaluate", "preview", "begin", "transaction"} => r.job \in Jobs
  /\ r.step = "preview" => CandidateIn(r.store, r.job)
  /\ r.step \in {"preview", "transaction"} =>
       /\ r.seen >= 1 /\ r.report => r.job \in files
       /\ r.seen >= 3 => ~r.report
       /\ r.seen >= 4 /\ r.job \notin files => r.sound
       /\ r.seen >= 5 => r.sound

\* The types; what each reviewer has seen; and in a transaction the job is the
\* candidate that was verified.
QualityInv ==
  /\ QualityTypes
  /\ \A c \in Reviewers : ReviewerInv(reviewer[c], edited)
  /\ \A c \in Reviewers : reviewer[c].step = "transaction" =>
       /\ CandidateIn(store, reviewer[c].job)
       /\ \A d \in Reviewers : reviewer[d].step = "transaction" => c = d

\* The candidates of the store are the candidates.
LEMMA CandidateIsIn == \A j : Candidate(j) <=> CandidateIn(store, j)
  BY DEF Candidate, CandidateIn, Lineage, LineageIn, StoredPass

\* A reviewer at rest has its type and knows nothing.
LEMMA ReviewerRest == ReviewerAtRest \in ReviewerRecord /\ \A files : ReviewerInv(ReviewerAtRest, files)
  BY QualityAssumption DEF ReviewerAtRest, ReviewerRecord, Truth, ReviewerInv, ReviewerSteps,
     Purposes

\* The first state keeps the invariant.
LEMMA QualityInitInv == QualityInit => QualityInv
<1> SUFFICES ASSUME QualityInit PROVE QualityInv
  OBVIOUS
<1>1. store \in Stores
  <2>1. NewJob(None, 0, FALSE) \in QualityJob /\ NoJob \in QualityJob
    BY QualityAssumption DEF NewJob, NoJob, QualityJob
  <2>2. [j \in Jobs |-> IF j = FirstJob THEN NewJob(None, 0, FALSE) ELSE NoJob] \in [Jobs -> QualityJob]
    BY <2>1
  <2>3. [j \in Jobs |-> IF j = FirstJob THEN [id |-> 1, passed |-> FALSE] ELSE NotEvaluated]
          \in [Jobs -> Verdict]
    BY QualityAssumption DEF NotEvaluated, Verdict
  <2>4. [status |-> "quality_failed", job |-> FirstJob] \in QualityRow
    BY QualityAssumption DEF QualityRow, RowStatuses
  <2>5. 1 \in 0..MaxEvaluations /\ 0 \in 0..MaxSource
    BY QualityAssumption
  <2> QED  BY <2>2, <2>3, <2>4, <2>5 DEF QualityInit, Stores
<1>2. store.indexed = 0 /\ source = 0 /\ edited = {}
  BY DEF QualityInit
<1>3. QualityTypes
  BY <1>1, <1>2, QualityAssumption, ReviewerRest DEF QualityInit, QualityTypes
<1>4. \A c \in Reviewers : reviewer[c] = ReviewerAtRest
  BY DEF QualityInit
<1>5. ReviewerAtRest.step = "idle"
  BY DEF ReviewerAtRest
<1> QED  BY <1>3, <1>4, <1>5, ReviewerRest DEF QualityInv

\* The store, field by field.
LEMMA StoreFields ==
  ASSUME store \in Stores
  PROVE  /\ store = [jobs |-> store.jobs, latest |-> store.latest, count |-> store.count,
                     row |-> store.row, indexed |-> store.indexed]
         /\ store.jobs \in [Jobs -> QualityJob] /\ store.latest \in [Jobs -> Verdict]
         /\ store.count \in 0..MaxEvaluations /\ store.row \in QualityRow
         /\ store.indexed \in 0..MaxSource
  BY DEF Stores

\* Files are edited: what a reviewer knows stays true.
LEMMA FilesEdited ==
  ASSUME NEW r \in ReviewerRecord, NEW files, NEW more, files \subseteq more, ReviewerInv(r, files)
  PROVE  ReviewerInv(r, more)
  BY DEF ReviewerInv, ReviewerRecord, Truth

\* The store is written while nobody is in a transaction.
LEMMA StoreMoves ==
  ASSUME QualityInv, NobodyWrites, store' \in Stores, store'.indexed <= source,
         UNCHANGED <<edited, source, reviewer>>
  PROVE  QualityInv'
  BY DEF QualityInv, QualityTypes, NobodyWrites

\* One reviewer moves and nothing else does.
LEMMA ReviewerMoves ==
  ASSUME QualityInv, NEW c \in Reviewers, NEW r \in ReviewerRecord,
         reviewer' = [reviewer EXCEPT ![c] = r], UNCHANGED <<store, edited, source>>,
         ReviewerInv(r, edited),
         r.step = "transaction" => CandidateIn(store, r.job) /\ StoreUnlocked(c)
  PROVE  QualityInv'
  BY DEF QualityInv, QualityTypes, StoreUnlocked

\* What the invariant says of one reviewer.
LEMMA QualityFacts ==
  ASSUME QualityInv, NEW c \in Reviewers
  PROVE  /\ store \in Stores /\ reviewer[c] \in ReviewerRecord /\ ReviewerInv(reviewer[c], edited)
         /\ reviewer \in [Reviewers -> ReviewerRecord]
         /\ source \in 0..MaxSource
  BY DEF QualityInv, QualityTypes

\* Files are edited.
LEMMA FileSteps ==
  ASSUME QualityInv, EditSource \/ \E j \in Jobs : EditJobReport(j)
  PROVE  QualityInv'
<1>1. CASE EditSource
  <2>1. store.indexed \in Int /\ source \in Int /\ store.indexed <= source
    BY QualityAssumption DEF QualityInv, QualityTypes, Stores
  <2>2. source' \in 0..MaxSource /\ store.indexed <= source'
    BY <1>1, <2>1, QualityAssumption DEF EditSource, QualityInv, QualityTypes
  <2> QED  BY <1>1, <2>2 DEF EditSource, QualityInv, QualityTypes
<1>2. ASSUME NEW j \in Jobs, EditJobReport(j) PROVE QualityInv'
  <2>1. edited' = edited \cup {j} /\ UNCHANGED <<store, source, reviewer>>
    BY <1>2 DEF EditJobReport
  <2>2. \A c \in Reviewers : ReviewerInv(reviewer[c], edited')
    BY <2>1, FilesEdited, QualityFacts
  <2> QED  BY <2>1, <2>2 DEF QualityInv, QualityTypes
<1> QED  BY <1>1, <1>2

\* Commands that are modelled elsewhere write the store.
LEMMA StoreSteps ==
  ASSUME QualityInv,
         \/ RefreshSource \/ ResetFailedRow
         \/ \E j \in Jobs : FailAgain(j) \/ \E k \in Jobs, good \in BOOLEAN : Retry(j, k, good)
  PROVE  QualityInv'
<1>0. /\ store \in Stores /\ source \in 0..MaxSource /\ store.indexed \in 0..MaxSource
      /\ store.indexed <= source
      /\ store = [jobs |-> store.jobs, latest |-> store.latest, count |-> store.count,
                  row |-> store.row, indexed |-> store.indexed]
  BY StoreFields DEF QualityInv, QualityTypes
<1>1. CASE RefreshSource
  <2>1. store' = [jobs |-> store.jobs, latest |-> store.latest, count |-> store.count,
                  row |-> store.row, indexed |-> source]
    BY <1>0, <1>1 DEF RefreshSource
  <2>2. store' \in Stores /\ store'.indexed <= source
    BY <1>0, <2>1, StoreFields DEF Stores
  <2> QED  BY <1>1, <2>2, StoreMoves DEF RefreshSource
<1>2. CASE ResetFailedRow
  <2> DEFINE row == [status |-> "queued", job |-> None]
  <2>1. store' = [jobs |-> store.jobs, latest |-> store.latest, count |-> store.count,
                  row |-> row, indexed |-> store.indexed]
    BY <1>0, <1>2 DEF ResetFailedRow
  <2>2. row \in QualityRow
    BY DEF QualityRow, RowStatuses
  <2> HIDE DEF row
  <2>3. store' \in Stores /\ store'.indexed <= source
    BY <1>0, <2>1, <2>2, StoreFields DEF Stores
  <2> QED  BY <1>2, <2>3, StoreMoves DEF ResetFailedRow
<1>3. ASSUME NEW j \in Jobs, FailAgain(j) PROVE QualityInv'
  <2> DEFINE job == NewJob(None, store.indexed, FALSE)
             verdict == [id |-> store.count + 1, passed |-> FALSE]
             row == [status |-> "quality_failed", job |-> j]
             jobs == [store.jobs EXCEPT ![j] = job]
             latest == [store.latest EXCEPT ![j] = verdict]
  <2>1. store' = [jobs |-> jobs, latest |-> latest, count |-> store.count + 1,
                  row |-> row, indexed |-> store.indexed]
    BY <1>0, <1>3 DEF FailAgain
  <2>2. job \in QualityJob /\ verdict \in Verdict /\ row \in QualityRow
        /\ store.count + 1 \in 0..MaxEvaluations
    <3>1. store.count \in 0..MaxEvaluations /\ store.count < MaxEvaluations
      BY <1>0, <1>3, StoreFields DEF FailAgain
    <3> QED  BY <3>1, <1>0, QualityAssumption
             DEF NewJob, QualityJob, Verdict, QualityRow, RowStatuses
  <2> HIDE DEF job, verdict, row
  <2>3. jobs \in [Jobs -> QualityJob] /\ latest \in [Jobs -> Verdict]
    BY <1>0, <2>2, StoreFields
  <2> HIDE DEF jobs, latest
  <2>4. store' \in Stores /\ store'.indexed <= source
    BY <1>0, <2>1, <2>2, <2>3 DEF Stores
  <2> QED  BY <1>3, <2>4, StoreMoves DEF FailAgain
<1>4. ASSUME NEW j \in Jobs, NEW k \in Jobs, NEW good \in BOOLEAN, Retry(j, k, good) PROVE QualityInv'
  <2> DEFINE job == NewJob(j, store.indexed, good)
             jobs == [store.jobs EXCEPT ![k] = job]
  <2>1. store' = [jobs |-> jobs, latest |-> store.latest, count |-> store.count,
                  row |-> store.row, indexed |-> store.indexed]
    BY <1>0, <1>4 DEF Retry
  <2>2. job \in QualityJob
    BY <1>0 DEF NewJob, QualityJob
  <2> HIDE DEF job
  <2>3. jobs \in [Jobs -> QualityJob]
    BY <1>0, <2>2, StoreFields
  <2> HIDE DEF jobs
  <2>4. store' \in Stores /\ store'.indexed <= source
    BY <1>0, <2>1, <2>3, StoreFields DEF Stores
  <2> QED  BY <1>4, <2>4, StoreMoves DEF Retry
<1> QED  BY <1>1, <1>2, <1>3, <1>4

\* Reviewers that read files.
LEMMA ReadFileStep ==
  ASSUME QualityInv, NEW c \in Reviewers, ReadFile(c)
  PROVE  QualityInv'
<1> DEFINE r == reviewer[c]
<1>1. r \in ReviewerRecord /\ ReviewerInv(r, edited) /\ source \in 0..MaxSource
      /\ reviewer \in [Reviewers -> ReviewerRecord]
  BY QualityFacts
<1>2. r.seen \in 0..5 /\ r.step \in {"preview", "transaction"} /\ r.job \in Jobs
      /\ r.report \in BOOLEAN /\ r.sound \in BOOLEAN
  BY <1>1 DEF ReadFile, ReviewerRecord, ReviewerInv, Truth
<1> DEFINE report == IF r.seen = 0 THEN r.job \in edited ELSE r.report
           sound == IF r.seen = 3 THEN Sound(r.job) ELSE r.sound
           file == IF r.seen = 1 THEN source ELSE r.source
           q == [step |-> r.step, job |-> r.job, seen |-> r.seen + 1, report |-> report,
                 source |-> file, store |-> r.store, purpose |-> r.purpose, sound |-> sound]
<1>3. report \in Truth /\ (r.seen = 0 => (report <=> r.job \in edited))
                     /\ (r.seen # 0 => (report <=> r.report))
  <2>1. CASE r.seen = 0
    BY <2>1 DEF Truth
  <2>2. CASE r.seen # 0
    BY <1>2, <2>2 DEF Truth
  <2> QED  BY <2>1, <2>2
<1>4. sound \in Truth /\ (r.seen = 3 => (sound <=> Sound(r.job)))
                    /\ (r.seen # 3 => (sound <=> r.sound))
  <2>1. CASE r.seen = 3
    BY <2>1 DEF Truth, Sound
  <2>2. CASE r.seen # 3
    BY <1>2, <2>2 DEF Truth
  <2> QED  BY <2>1, <2>2
<1>5. file \in 0..MaxSource
  BY <1>1 DEF ReviewerRecord
<1>6. reviewer' = [reviewer EXCEPT ![c] = q]
  <2>1. reviewer' = [reviewer EXCEPT ![c] =
           [r EXCEPT !.seen = r.seen + 1, !.report = report, !.source = file, !.sound = sound]]
    BY DEF ReadFile
  <2> HIDE DEF report, sound, file
  <2>2. reviewer'[c] = q
    BY <1>1, <1>3, <1>4, <1>5, <2>1 DEF ReviewerRecord
  <2> QED  BY <2>1, <2>2
<1> HIDE DEF report, sound, file
<1>7. q \in ReviewerRecord
  BY <1>1, <1>2, <1>3, <1>4, <1>5 DEF ReviewerRecord
<1>8. ReviewerInv(q, edited)
  <2>1. r.seen + 1 >= 1 /\ report => r.job \in edited
    BY <1>1, <1>2, <1>3 DEF ReviewerInv
  <2>2. r.seen + 1 >= 3 => ~report
    <3>1. r.seen >= 2 => r.job \notin edited \/ ~r.report
      BY <1>1, <1>2 DEF ReviewerInv, ReadFile
    <3> QED  BY <1>1, <1>2, <1>3, <3>1 DEF ReviewerInv
  <2>3. r.seen + 1 >= 4 /\ r.job \notin edited => sound
    <3>1. r.seen = 3 /\ r.job \notin edited => Sound(r.job)
      BY DEF ReadFile, Sound
    <3> QED  BY <1>1, <1>2, <1>4, <3>1 DEF ReviewerInv
  <2>4. r.seen + 1 >= 5 => sound
    <3>1. r.seen = 4 => r.report = (r.job \in edited)
      BY DEF ReadFile, AfterMatches
    <3>2. r.seen = 4 => r.job \notin edited
      BY <1>1, <1>2, <3>1 DEF ReviewerInv
    <3> QED  BY <1>1, <1>2, <1>4, <3>2 DEF ReviewerInv
  <2> QED  BY <1>1, <1>2, <2>1, <2>2, <2>3, <2>4 DEF ReviewerInv
<1>9. r.step = "transaction" => CandidateIn(store, r.job) /\ StoreUnlocked(c)
  BY DEF QualityInv, StoreUnlocked
<1> HIDE DEF q
<1>10. q.step = r.step /\ q.job = r.job
  BY DEF q
<1> QED  BY <1>6, <1>7, <1>8, <1>9, <1>10, ReviewerMoves DEF ReadFile

\* The fields a review begins with have their types.
LEMMA RestFields == /\ "evaluate" \in ReviewerSteps
                    /\ "preview" \in ReviewerSteps /\ {"evaluate", "retire", "review"} \subseteq Purposes
                    /\ 0 \in 0..MaxSource /\ FALSE \in Truth
  BY QualityAssumption DEF ReviewerSteps, Purposes, Truth

\* An evaluation begins: the report is read.
LEMMA BeginEvaluationStep ==
  ASSUME QualityInv, NEW c \in Reviewers, NEW j \in Jobs, BeginEvaluation(c, j)
  PROVE  QualityInv'
<1> DEFINE report == j \in edited
           q == [step |-> "evaluate", job |-> j, seen |-> 3, report |-> report, source |-> 0,
                 store |-> None, purpose |-> "evaluate", sound |-> FALSE]
<1>1. report \in Truth
  BY DEF Truth
<1>0. reviewer' = [reviewer EXCEPT ![c] =
         [ReviewerAtRest EXCEPT !.step = "evaluate", !.job = j, !.seen = 3, !.report = report]]
  BY DEF BeginEvaluation
<1> HIDE DEF report
<1>2. reviewer' = [reviewer EXCEPT ![c] = q]
  <2>1. reviewer'[c] = q
    BY <1>0, <1>1, QualityFacts, ReviewerRest DEF ReviewerAtRest, ReviewerRecord
  <2> QED  BY <1>0, <2>1
<1>3. q \in ReviewerRecord
  BY <1>1, RestFields DEF ReviewerRecord, Truth
<1>4. ReviewerInv(q, edited)
  BY DEF ReviewerInv
<1>5. q.step # "transaction"
  OBVIOUS
<1> HIDE DEF q
<1> QED  BY <1>2, <1>3, <1>4, <1>5, ReviewerMoves DEF BeginEvaluation

\* An evaluation reads a file.
LEMMA ReadForEvaluationStep ==
  ASSUME QualityInv, NEW c \in Reviewers, ReadForEvaluation(c)
  PROVE  QualityInv'
<1> DEFINE r == reviewer[c]
           sound == ManifestValid(r.job, source)
           q == [step |-> r.step, job |-> r.job, seen |-> 4, report |-> r.report, source |-> r.source,
                 store |-> r.store, purpose |-> r.purpose, sound |-> sound]
<1>1. r \in ReviewerRecord /\ ReviewerInv(r, edited) /\ reviewer \in [Reviewers -> ReviewerRecord]
  BY QualityFacts
<1>2. sound \in Truth
  BY DEF Truth, ManifestValid
<1>3. reviewer' = [reviewer EXCEPT ![c].seen = 4, ![c].sound = sound]
  BY DEF ReadForEvaluation
<1> HIDE DEF sound
<1>4. reviewer'[c] = q
  BY <1>1, <1>2, <1>3 DEF ReviewerRecord
<1>5. reviewer' = [reviewer EXCEPT ![c] = q]
  BY <1>1, <1>3, <1>4 DEF ReviewerRecord
<1>6. q \in ReviewerRecord
  BY <1>1, <1>2 DEF ReviewerRecord
<1>7. r.step = "evaluate"
  BY DEF ReadForEvaluation
<1>8. ReviewerInv(q, edited) /\ q.step # "transaction"
  BY <1>1, <1>7 DEF ReviewerInv
<1> HIDE DEF q
<1> QED  BY <1>5, <1>6, <1>8, ReviewerMoves DEF ReadForEvaluation

\* The store is written by reviewer c, who ends, while nobody else is in a transaction.
LEMMA ReviewerCommits ==
  ASSUME QualityInv, NEW c \in Reviewers, StoreUnlocked(c),
         store' \in Stores, store'.indexed = store.indexed, UNCHANGED <<edited, source>>,
         reviewer' = [reviewer EXCEPT ![c] = ReviewerAtRest]
  PROVE  QualityInv'
<1>1. QualityTypes'
  BY ReviewerRest DEF QualityInv, QualityTypes
<1>2. \A d \in Reviewers : ReviewerInv(reviewer'[d], edited')
  BY ReviewerRest DEF QualityInv, QualityTypes
<1>3. \A d \in Reviewers : reviewer'[d].step # "transaction"
  BY DEF QualityInv, QualityTypes, StoreUnlocked, ReviewerAtRest
<1> QED  BY <1>1, <1>2, <1>3 DEF QualityInv

\* It is committed, unless it has to begin again.
LEMMA CommitEvaluationStep ==
  ASSUME QualityInv, NEW c \in Reviewers, CommitEvaluation(c)
  PROVE  QualityInv'
<1> DEFINE r == reviewer[c]
           passed == store.jobs[r.job].good /\ ~r.report /\ r.sound
           settles == store.row.job = r.job /\ store.row.status \in {"complete", "quality_failed"}
           status == IF settles THEN IF passed THEN "complete" ELSE "quality_failed"
                                ELSE store.row.status
           verdict == [id |-> store.count + 1, passed |-> passed]
           latest == [store.latest EXCEPT ![r.job] = verdict]
           row == [store.row EXCEPT !.status = status]
<1>1. /\ r \in ReviewerRecord /\ store \in Stores /\ store.count \in 0..MaxEvaluations
      /\ store.latest \in [Jobs -> Verdict] /\ store.row \in QualityRow
  BY QualityFacts, StoreFields
<1>2. store' = [jobs |-> store.jobs, latest |-> latest, count |-> store.count + 1,
                row |-> row, indexed |-> store.indexed]
  BY <1>1, StoreFields DEF CommitEvaluation
<1>3. passed \in BOOLEAN /\ status \in RowStatuses
  BY <1>1 DEF QualityRow, RowStatuses
<1> HIDE DEF passed, status
<1>4. store.count + 1 \in 0..MaxEvaluations
  BY <1>1, QualityAssumption DEF CommitEvaluation
<1>5. verdict \in Verdict
  BY <1>3, <1>4 DEF Verdict
<1>6. row \in QualityRow
  BY <1>1, <1>3 DEF QualityRow
<1> HIDE DEF verdict, row
<1>7. latest \in [Jobs -> Verdict]
  BY <1>1, <1>5
<1> HIDE DEF latest
<1>8. store' \in Stores /\ store'.indexed = store.indexed
  BY <1>1, <1>2, <1>4, <1>6, <1>7, StoreFields DEF Stores
<1> QED  BY <1>8, ReviewerCommits DEF CommitEvaluation

\* The failure is retired.
LEMMA SupersedeStep ==
  ASSUME QualityInv, NEW c \in Reviewers, Supersede(c)
  PROVE  QualityInv'
<1> DEFINE row == [store.row EXCEPT !.status = "superseded"]
<1>1. store \in Stores /\ store.row \in QualityRow
  BY StoreFields DEF QualityInv, QualityTypes
<1>2. store' = [jobs |-> store.jobs, latest |-> store.latest, count |-> store.count,
                row |-> row, indexed |-> store.indexed]
  BY <1>1, StoreFields DEF Supersede
<1>3. row \in QualityRow
  BY <1>1 DEF QualityRow, RowStatuses
<1> HIDE DEF row
<1>4. store' \in Stores /\ store'.indexed = store.indexed
  BY <1>1, <1>2, <1>3, StoreFields DEF Stores
<1>5. StoreUnlocked(c)
  BY DEF QualityInv, Supersede, StoreUnlocked
<1> QED  BY <1>4, <1>5, ReviewerCommits DEF Supersede

\* Previews and proofs.
LEMMA BeginPreviewStep ==
  ASSUME QualityInv, NEW c \in Reviewers, NEW j \in Jobs, NEW purpose \in {"retire", "review"},
         BeginPreview(c, j, purpose)
  PROVE  QualityInv'
<1> DEFINE q == [step |-> "preview", job |-> j, seen |-> 0, report |-> FALSE, source |-> 0,
                 store |-> store, purpose |-> purpose, sound |-> FALSE]
<1>1. store \in Stores /\ reviewer \in [Reviewers -> ReviewerRecord]
  BY DEF QualityInv, QualityTypes
<1>2. reviewer' = [reviewer EXCEPT ![c] = q]
  <2>1. reviewer' = [reviewer EXCEPT ![c] = [ReviewerAtRest EXCEPT !.step = "preview", !.job = j,
                                                !.store = store, !.purpose = purpose]]
    BY DEF BeginPreview
  <2>2. reviewer'[c] = q
    BY <1>1, <2>1, ReviewerRest DEF ReviewerAtRest, ReviewerRecord
  <2> QED  BY <2>1, <2>2
<1>3. q \in ReviewerRecord
  BY <1>1, RestFields DEF ReviewerRecord, Truth
<1>4. ReviewerInv(q, edited) /\ q.step # "transaction"
  BY CandidateIsIn DEF ReviewerInv, BeginPreview
<1> HIDE DEF q
<1> QED  BY <1>2, <1>3, <1>4, ReviewerMoves DEF BeginPreview

\* A preview goes on, a retirement is proved, or either is refused.
LEMMA PreviewSteps ==
  ASSUME QualityInv, NEW c \in Reviewers,
         \/ PreviewAgain(c) \/ VerifyRetirement(c) \/ OpenSupersession(c) \/ Prove(c) \/ RefuseReviewer(c)
  PROVE  QualityInv'
<1> DEFINE r == reviewer[c]
           Going(step, seen, purpose) ==
             [step |-> step, job |-> r.job, seen |-> seen, report |-> r.report, source |-> r.source,
              store |-> r.store, purpose |-> purpose, sound |-> r.sound]
<1>1. r \in ReviewerRecord /\ ReviewerInv(r, edited) /\ reviewer \in [Reviewers -> ReviewerRecord]
  BY QualityFacts
<1>2. \A step \in ReviewerSteps, seen \in 0..6, purpose \in Purposes :
         Going(step, seen, purpose) \in ReviewerRecord
  BY <1>1 DEF ReviewerRecord
<1>3. CASE PreviewAgain(c)
  <2>1. reviewer'[c] = Going("preview", 0, "second review") /\ r.step = "preview"
    BY <1>1, <1>3 DEF PreviewAgain, Previewed, ReviewerRecord
  <2>2. reviewer' = [reviewer EXCEPT ![c] = Going("preview", 0, "second review")]
    BY <1>1, <1>3, <2>1 DEF PreviewAgain
  <2>3. ReviewerInv(Going("preview", 0, "second review"), edited)
    <3>1. r.job \in Jobs /\ CandidateIn(r.store, r.job)
      BY <1>1, <2>1 DEF ReviewerInv
    <3> QED  BY <3>1 DEF ReviewerInv
  <2>4. Going("preview", 0, "second review") \in ReviewerRecord
    <3>1. "preview" \in ReviewerSteps /\ "second review" \in Purposes /\ 0 \in 0..6
      BY DEF ReviewerSteps, Purposes
    <3> QED  BY <1>2, <3>1
  <2> QED  BY <1>3, <2>2, <2>3, <2>4, ReviewerMoves DEF PreviewAgain
<1>4. CASE VerifyRetirement(c)
  <2>1. reviewer'[c] = Going("verified", r.seen, r.purpose)
    BY <1>1, <1>4 DEF VerifyRetirement, ReviewerRecord
  <2>2. reviewer' = [reviewer EXCEPT ![c] = Going("verified", r.seen, r.purpose)]
    BY <1>1, <1>4, <2>1 DEF VerifyRetirement
  <2>3. ReviewerInv(Going("verified", r.seen, r.purpose), edited)
    BY DEF ReviewerInv
  <2>4. Going("verified", r.seen, r.purpose) \in ReviewerRecord
    BY <1>1 DEF ReviewerRecord, ReviewerSteps
  <2> QED  BY <1>4, <2>2, <2>3, <2>4, ReviewerMoves DEF VerifyRetirement
<1>5. CASE OpenSupersession(c)
  <2>1. reviewer'[c] = Going("begin", r.seen, r.purpose) /\ r.step = "preview"
    BY <1>1, <1>5 DEF OpenSupersession, Previewed, ReviewerRecord
  <2>2. reviewer' = [reviewer EXCEPT ![c] = Going("begin", r.seen, r.purpose)]
    BY <1>1, <1>5, <2>1 DEF OpenSupersession
  <2>3. ReviewerInv(Going("begin", r.seen, r.purpose), edited)
    BY <1>1, <2>1 DEF ReviewerInv
  <2>4. Going("begin", r.seen, r.purpose) \in ReviewerRecord
    BY <1>1 DEF ReviewerRecord, ReviewerSteps
  <2> QED  BY <1>5, <2>2, <2>3, <2>4, ReviewerMoves DEF OpenSupersession
<1>6. CASE Prove(c)
  <2>1. reviewer'[c] = Going("transaction", 0, r.purpose) /\ r.step = "begin"
    BY <1>1, <1>6 DEF Prove, ReviewerRecord
  <2>2. reviewer' = [reviewer EXCEPT ![c] = Going("transaction", 0, r.purpose)]
    BY <1>1, <1>6, <2>1 DEF Prove
  <2>3. ReviewerInv(Going("transaction", 0, r.purpose), edited)
    BY <1>1, <2>1 DEF ReviewerInv
  <2>4. Going("transaction", 0, r.purpose) \in ReviewerRecord
    BY <1>1 DEF ReviewerRecord, ReviewerSteps
  <2>5. CandidateIn(store, r.job) /\ StoreUnlocked(c)
    BY <1>6, CandidateIsIn DEF Prove, ProofUnchanged
  <2> QED  BY <1>6, <2>2, <2>3, <2>4, <2>5, ReviewerMoves DEF Prove
<1>7. CASE RefuseReviewer(c)
  <2>1. ReviewerAtRest.step # "transaction"
    BY DEF ReviewerAtRest
  <2> QED  BY <1>7, <2>1, ReviewerRest, ReviewerMoves DEF RefuseReviewer
<1> QED  BY <1>3, <1>4, <1>5, <1>6, <1>7

\* Every step keeps the invariant.
LEMMA QualityStepInv == QualityInv /\ [QualityNext]_qualityVars => QualityInv'
<1> SUFFICES ASSUME QualityInv, [QualityNext]_qualityVars PROVE QualityInv'
  OBVIOUS
<1>1. CASE UNCHANGED qualityVars
  BY <1>1 DEF qualityVars, QualityInv, QualityTypes
<1>2. CASE QualityNext
  BY <1>2, FileSteps, StoreSteps, ReadFileStep, BeginEvaluationStep, ReadForEvaluationStep,
     CommitEvaluationStep, SupersedeStep, BeginPreviewStep, PreviewSteps DEF QualityNext
<1> QED  BY <1>1, <1>2

\* Store, files and reviewers keep their types (evaluation_history and queue in
\* core.py).
THEOREM QualityTypesTheorem == QualitySpec => []QualityTypeOK
<1>1. QualityInv => QualityTypeOK
  <2> SUFFICES ASSUME QualityInv PROVE QualityTypeOK
    OBVIOUS
  <2>1. store \in Stores /\ store.indexed \in 0..source
    BY StoreFields, QualityAssumption DEF QualityInv, QualityTypes
  <2> QED  BY <2>1, StoreFields DEF QualityInv, QualityTypes, QualityTypeOK, QualityJob, Verdict,
           QualityRow, ReviewerRecord
<1> QED  BY <1>1, QualityInitInv, QualityStepInv, PTL DEF QualitySpec

\* While a reviewer is in a transaction only that one writes the store.
LEMMA TransactionWrites ==
  ASSUME QualityInv, QualityNext, NEW c \in Reviewers, reviewer[c].step = "transaction", store' # store
  PROVE  Supersede(c)
<1>1. \A d \in Reviewers \ {c} : reviewer[d].step # "transaction"
  BY DEF QualityInv
<1>2. ~NobodyWrites /\ \A d \in Reviewers : StoreUnlocked(d) => d = c
  BY DEF NobodyWrites, StoreUnlocked
<1>3. ~RefreshSource /\ ~ResetFailedRow
      /\ \A j \in Jobs : ~FailAgain(j) /\ \A k \in Jobs, good \in BOOLEAN : ~Retry(j, k, good)
  BY <1>2 DEF RefreshSource, ResetFailedRow, FailAgain, Retry
<1>4. \A d \in Reviewers : ~CommitEvaluation(d)
  BY <1>2 DEF CommitEvaluation
<1>5. \A d \in Reviewers : Supersede(d) => d = c
  BY <1>1 DEF Supersede
<1>6. ~EditSource /\ \A j \in Jobs : ~EditJobReport(j)
  BY DEF EditSource, EditJobReport
<1>7. \A d \in Reviewers :
         /\ ~ReadFile(d) /\ ~ReadForEvaluation(d) /\ ~PreviewAgain(d) /\ ~VerifyRetirement(d)
         /\ ~OpenSupersession(d) /\ ~Prove(d) /\ ~RefuseReviewer(d)
         /\ \A j \in Jobs : ~BeginEvaluation(d, j)
                            /\ \A purpose \in {"retire", "review"} : ~BeginPreview(d, j, purpose)
  BY DEF ReadFile, ReadForEvaluation, PreviewAgain, VerifyRetirement, OpenSupersession, Prove,
         RefuseReviewer, BeginEvaluation, BeginPreview
<1> QED  BY <1>3, <1>4, <1>5, <1>6, <1>7 DEF QualityNext

\* Only a reviewer that verifies a retirement becomes verified.
LEMMA WhoVerifies ==
  ASSUME QualityInv, QualityNext, NEW c \in Reviewers,
         reviewer'[c].step = "verified", reviewer[c].step # "verified"
  PROVE  VerifyRetirement(c)
<1>1. reviewer \in [Reviewers -> ReviewerRecord] /\ reviewer' # reviewer
  BY DEF QualityInv, QualityTypes
<1>2. PICK d \in Reviewers :
        \/ ReadFile(d) \/ ReadForEvaluation(d) \/ CommitEvaluation(d) \/ PreviewAgain(d)
        \/ VerifyRetirement(d) \/ OpenSupersession(d) \/ Prove(d) \/ Supersede(d) \/ RefuseReviewer(d)
        \/ \E j \in Jobs : \/ BeginEvaluation(d, j)
                           \/ \E purpose \in {"retire", "review"} : BeginPreview(d, j, purpose)
  BY <1>1 DEF QualityNext, EditSource, RefreshSource, ResetFailedRow, EditJobReport, FailAgain,
     Retry
<1>3. ASSUME NEW q, reviewer' = [reviewer EXCEPT ![d] = q] PROVE d = c /\ q.step = "verified"
  BY <1>1, <1>3
<1>4. ~Supersede(d) /\ ~CommitEvaluation(d) /\ ~RefuseReviewer(d)
  BY <1>3 DEF Supersede, CommitEvaluation, RefuseReviewer, ReviewerAtRest
<1>5. \A j \in Jobs : /\ ~BeginEvaluation(d, j)
                      /\ \A purpose \in {"retire", "review"} : ~BeginPreview(d, j, purpose)
  <2>1. ASSUME NEW j \in Jobs, BeginEvaluation(d, j) PROVE FALSE
    <3> DEFINE q == [ReviewerAtRest EXCEPT !.step = "evaluate", !.job = j, !.seen = 3,
                                           !.report = j \in edited]
    <3>1. reviewer' = [reviewer EXCEPT ![d] = q]
      BY <2>1 DEF BeginEvaluation
    <3>2. q.step = "evaluate"
      BY DEF ReviewerAtRest
    <3> QED  BY <1>3, <3>1, <3>2
  <2>2. ASSUME NEW j \in Jobs, NEW purpose \in {"retire", "review"}, BeginPreview(d, j, purpose)
        PROVE  FALSE
    <3> DEFINE q == [ReviewerAtRest EXCEPT !.step = "preview", !.job = j, !.store = store,
                                           !.purpose = purpose]
    <3>1. reviewer' = [reviewer EXCEPT ![d] = q]
      BY <2>2 DEF BeginPreview
    <3>2. q.step = "preview"
      BY DEF ReviewerAtRest
    <3> QED  BY <1>3, <3>1, <3>2
  <2> QED  BY <2>1, <2>2
<1>6. ~ReadFile(d)
  <2> SUFFICES ASSUME ReadFile(d) PROVE FALSE
    OBVIOUS
  <2>1. reviewer[d].step \in {"preview", "transaction"}
    BY DEF ReadFile
  <2>2. reviewer'[d].step = reviewer[d].step
    BY <1>1 DEF ReadFile, ReviewerRecord
  <2>3. d = c
    BY <1>1 DEF ReadFile
  <2> QED  BY <2>1, <2>2, <2>3
<1>7. ~ReadForEvaluation(d)
  BY <1>1 DEF ReadForEvaluation, ReviewerRecord
<1>8. ~PreviewAgain(d)
  BY <1>1 DEF PreviewAgain, Previewed, ReviewerRecord
<1>9. ~OpenSupersession(d)
  BY <1>1 DEF OpenSupersession, ReviewerRecord
<1>10. ~Prove(d)
  BY <1>1 DEF Prove, ReviewerRecord
<1>11. VerifyRetirement(d) => d = c
  BY <1>1 DEF VerifyRetirement
<1> QED  BY <1>2, <1>4, <1>5, <1>6, <1>7, <1>8, <1>9, <1>10, <1>11

\* A failure is retired only for a passing retry whose report and sources were
\* as evaluated at one instant, for any jobs, reviewers and edits: files that
\* are only edited and read twice alike were so at the instant between, and the
\* transaction looks at the store again.
THEOREM RetirementTheorem == QualitySpec => RetirementIsProven
<1>1. ASSUME QualityInv, QualityNext PROVE RetiresTheProven
  <2> SUFFICES ASSUME NEW c \in Reviewers,
                 \/ reviewer[c].step = "transaction" /\ store'.row.status = "superseded"
                                                     /\ store.row.status # "superseded"
                 \/ reviewer'[c].step = "verified" /\ reviewer[c].step # "verified"
               PROVE  Candidate(reviewer[c].job) /\ reviewer[c].sound
    BY DEF RetiresTheProven
  <2>1. ReviewerInv(reviewer[c], edited) /\ reviewer[c] \in ReviewerRecord
    BY <1>1, QualityFacts
  <2>2. CASE reviewer[c].step = "transaction" /\ store' # store
    <3>1. Supersede(c)
      BY <1>1, <2>2, TransactionWrites
    <3>2. CandidateIn(store, reviewer[c].job)
      BY <1>1, <2>2 DEF QualityInv
    <3> QED  BY <2>1, <3>1, <3>2, CandidateIsIn DEF Supersede, ReviewerInv
  <2>3. CASE reviewer'[c].step = "verified" /\ reviewer[c].step # "verified"
    <3>1. VerifyRetirement(c)
      BY <1>1, <2>3, WhoVerifies
    <3>2. reviewer[c].step = "preview" /\ reviewer[c].seen = 6 /\ reviewer[c].store = store
      BY <3>1 DEF VerifyRetirement, Previewed
    <3> QED  BY <2>1, <3>2, CandidateIsIn DEF ReviewerInv
  <2> QED  BY <2>2, <2>3
<1>2. QualityInv /\ [QualityNext]_qualityVars => [RetiresTheProven]_qualityVars
  BY <1>1
<1> QED  BY <1>2, QualityInitInv, QualityStepInv, PTL DEF QualitySpec, RetirementIsProven

----------------------------------------------------------------------------
(* ProductEvidence *)

\* Commands, typed.
Works == [missions : Nat, runs : Nat, trims : Nat]

Abouts == Receipts \cup Missions \cup {None}

CommandRecord == [step : CommandSteps, work : Works, scheduled : Truth, about : Abouts,
                  receipt : Receipts \cup {None}, pending : Truth, created : Truth]

\* The types of the variables.
EvidenceTypes ==
    /\ due \in 0..MaxDue
    /\ passes \in [Missions -> BOOLEAN] /\ broken \in SUBSET Missions
    /\ inbox \in SUBSET (Receipts \ Failed) /\ archive \in SUBSET Receipts
    /\ kept \in SUBSET Receipts /\ accepted \in SUBSET Receipts
    /\ ledger \in Seq(Row) /\ Len(ledger) <= MaxReviews
    /\ command \in [Commands -> CommandRecord]

\* What a command k knows of what it works on.
CommandInv(k, reviewed) ==
  /\ k.step \in {"receipt", "record", "archive"} =>
       k.receipt \in Receipts /\ k.about \in Receipts \cup {None}
  /\ k.step = "archive" => k.receipt \in reviewed
  /\ k.step \in {"shown", "rechecked"} => k.about \in Missions

\* What was accepted had passed when it was recorded.
Honest(row) == row.decision = "accepted" =>
                  row.passed /\ (row.about \notin Missions => row.receipt \notin Failed)

\* The types; receipts stand in inbox or archive; rows are honest; commands
\* know what they work on.
EvidenceInv ==
  /\ EvidenceTypes
  /\ ReviewsAreKept
  /\ \A row \in Rows : Honest(row)
  /\ \A c \in Commands : CommandInv(command[c], Reviewed)

\* At these a command knows nothing.
PlainSteps == {"idle", "cycle", "recover", "retry", "look", "experiment", "invoke again", "journal"}

\* A command at rest has its type.
LEMMA CommandRest == CommandAtRest \in CommandRecord
  BY DEF CommandAtRest, CommandRecord, CommandSteps, Works, NoWork, Abouts, Truth

\* At a plain step a command claims nothing.
LEMMA PlainInv == \A k, reviewed : k.step \in PlainSteps => CommandInv(k, reviewed)
  BY DEF PlainSteps, CommandInv

\* The first state keeps the invariant.
LEMMA EvidenceInitInv == EvidenceInit => EvidenceInv
<1> SUFFICES ASSUME EvidenceInit PROVE EvidenceInv
  OBVIOUS
<1>1. EvidenceTypes
  BY CommandRest, EvidenceAssumption DEF EvidenceInit, EvidenceTypes
<1>2. Rows = {} /\ Reviewed = {}
  BY DEF EvidenceInit, Rows, Reviewed
<1>3. ReviewsAreKept
  BY DEF EvidenceInit, ReviewsAreKept
<1>4. \A c \in Commands : command[c].step = "idle"
  BY DEF EvidenceInit, CommandAtRest
<1>5. \A c \in Commands : CommandInv(command[c], Reviewed)
  BY <1>4 DEF CommandInv
<1> QED  BY <1>1, <1>2, <1>3, <1>5 DEF EvidenceInv

\* An append to the ledger adds a row.
LEMMA RowsGrow ==
  ASSUME ledger \in Seq(Row), NEW row \in Row, ledger' = Append(ledger, row)
  PROVE  /\ Rows' = Rows \cup {row}
         /\ Reviewed' = Reviewed \cup ({row.receipt} \ {None})
<1>1. /\ DOMAIN ledger = 1..Len(ledger) /\ DOMAIN ledger' = 1..Len(ledger) + 1 /\ Len(ledger) \in Nat
      /\ \A i \in 1..Len(ledger) : ledger'[i] = ledger[i]
      /\ ledger'[Len(ledger) + 1] = row
  OBVIOUS
<1>2. Rows' = Rows \cup {row}
  <2>1. ASSUME NEW x \in Rows' PROVE x \in Rows \cup {row}
    <3>1. PICK i \in 1..Len(ledger) + 1 : x = ledger'[i]
      BY <1>1 DEF Rows
    <3>2. CASE i = Len(ledger) + 1
      BY <1>1, <3>1, <3>2
    <3>3. CASE i # Len(ledger) + 1
      <4>1. i \in 1..Len(ledger)
        BY <1>1, <3>3
      <4> QED  BY <1>1, <3>1, <4>1 DEF Rows
    <3> QED  BY <3>2, <3>3
  <2>2. ASSUME NEW x \in Rows PROVE x \in Rows'
    <3>1. PICK i \in 1..Len(ledger) : x = ledger[i]
      BY <1>1, <2>2 DEF Rows
    <3>2. i \in 1..Len(ledger) + 1 /\ x = ledger'[i]
      BY <1>1, <3>1
    <3> QED  BY <1>1, <3>2 DEF Rows
  <2>3. row \in Rows'
    <3>1. Len(ledger) + 1 \in 1..Len(ledger) + 1
      BY <1>1
    <3> QED  BY <1>1, <3>1 DEF Rows
  <2> QED  BY <2>1, <2>2, <2>3
<1> QED  BY <1>2 DEF Reviewed

\* A command moves and the files and the ledger stay.
LEMMA CommandMoves ==
  ASSUME EvidenceInv, NEW c \in Commands, NEW k \in CommandRecord,
         command' = [command EXCEPT ![c] = k], CommandInv(k, Reviewed),
         due' \in 0..MaxDue, kept' \in SUBSET Receipts,
         UNCHANGED <<passes, broken, inboxVars, ledger>>
  PROVE  EvidenceInv'
<1>1. Rows' = Rows /\ Reviewed' = Reviewed
  BY DEF Rows, Reviewed
<1>2. EvidenceTypes' /\ ReviewsAreKept'
  BY <1>1 DEF EvidenceInv, EvidenceTypes, ReviewsAreKept, inboxVars
<1>3. \A d \in Commands : CommandInv(command'[d], Reviewed)
  BY DEF EvidenceInv, EvidenceTypes
<1> QED  BY <1>1, <1>2, <1>3 DEF EvidenceInv, Honest

\* How the commands move.
LEMMA Goes ==
  ASSUME EvidenceInv, NEW c \in Commands, NEW step \in CommandSteps, CommandGoes(c, step)
  PROVE  \E k \in CommandRecord :
            /\ command' = [command EXCEPT ![c] = k]
            /\ k.step = step /\ k.about = command[c].about /\ k.receipt = command[c].receipt
<1> DEFINE r == command[c]
           k == [step |-> step, work |-> r.work, scheduled |-> r.scheduled, about |-> r.about,
                 receipt |-> r.receipt, pending |-> r.pending, created |-> r.created]
<1>1. r \in CommandRecord /\ command \in [Commands -> CommandRecord]
  BY DEF EvidenceInv, EvidenceTypes
<1>2. command'[c] = k
  BY <1>1 DEF CommandGoes, CommandRecord
<1>3. command' = [command EXCEPT ![c] = k]
  BY <1>1, <1>2 DEF CommandGoes
<1>4. k \in CommandRecord
  BY <1>1 DEF CommandRecord
<1>5. k.step = step /\ k.about = r.about /\ k.receipt = r.receipt
  OBVIOUS
<1> HIDE DEF k
<1> QED  BY <1>3, <1>4, <1>5

\* A command that counts its work goes on.
LEMMA WorkCounted ==
  ASSUME EvidenceInv, NEW c \in Commands, NEW step \in CommandSteps,
         NEW field \in {"missions", "runs", "trims"}, Worked(c, field, step)
  PROVE  \E k \in CommandRecord : command' = [command EXCEPT ![c] = k] /\ k.step = step
<1> DEFINE r == command[c]
<1>1. r \in CommandRecord /\ command \in [Commands -> CommandRecord] /\ r.work \in Works
  BY DEF EvidenceInv, EvidenceTypes, CommandRecord
<1>2. [r.work EXCEPT ![field] = r.work[field] + 1] \in Works
  BY <1>1 DEF Works
<1>3. PICK w \in Works : w = [r.work EXCEPT ![field] = r.work[field] + 1]
  BY <1>2
<1> DEFINE k == [step |-> step, work |-> w, scheduled |-> r.scheduled, about |-> r.about,
                 receipt |-> r.receipt, pending |-> r.pending, created |-> r.created]
<1>4. command' = [command EXCEPT ![c].step = step, ![c].work = w]
  BY <1>1, <1>3 DEF Worked, CommandRecord
<1>5. command'[c] = k
  BY <1>1, <1>4 DEF CommandRecord
<1>6. command' = [command EXCEPT ![c] = k]
  BY <1>1, <1>4, <1>5 DEF CommandRecord
<1>7. k \in CommandRecord
  BY <1>1 DEF CommandRecord
<1>8. k.step = step
  OBVIOUS
<1> HIDE DEF k
<1> QED  BY <1>6, <1>7, <1>8

\* What the invariant says of one command.
LEMMA EvidenceFacts ==
  ASSUME EvidenceInv, NEW c \in Commands
  PROVE  /\ EvidenceTypes /\ command[c] \in CommandRecord /\ CommandInv(command[c], Reviewed)
         /\ command \in [Commands -> CommandRecord]
  BY DEF EvidenceInv, EvidenceTypes

\* A command begins.
Begun(step, about, receipt, pending, scheduled) ==
  [step |-> step, work |-> NoWork, scheduled |-> scheduled, about |-> about, receipt |-> receipt,
   pending |-> pending, created |-> FALSE]

\* The fields a command begins with have their types.
LEMMA BegunFields ==
  /\ {"cycle", "experiment", "receipt", "shown"} \subseteq CommandSteps /\ NoWork \in Works
  /\ None \in Abouts /\ Receipts \subseteq Abouts /\ Missions \subseteq Abouts
  BY DEF CommandSteps, Abouts, NoWork, Works

\* A tick begins.
LEMMA BegunTick ==
  ASSUME EvidenceInv, NEW c \in Commands, StartTick(c)
  PROVE  \E k \in CommandRecord : command' = [command EXCEPT ![c] = k] /\ k.step = "cycle"
<1> DEFINE k == Begun("cycle", None, None, FALSE, TRUE)
<1>1. command' = [command EXCEPT ![c] = [CommandAtRest EXCEPT !.step = "cycle", !.scheduled = TRUE]]
  BY DEF StartTick, BeginCommand
<1>2. command'[c] = k
  BY <1>1, EvidenceFacts, CommandRest DEF CommandAtRest, Begun, CommandRecord
<1>3. k \in CommandRecord /\ k.step = "cycle"
  BY BegunFields DEF Begun, CommandRecord, Truth
<1> QED  BY <1>1, <1>2, <1>3

\* An experiment begins.
LEMMA BegunExperiment ==
  ASSUME EvidenceInv, NEW c \in Commands, StartExperiment(c)
  PROVE  \E k \in CommandRecord : command' = [command EXCEPT ![c] = k] /\ k.step = "experiment"
<1> DEFINE k == Begun("experiment", None, None, FALSE, FALSE)
<1>1. command' = [command EXCEPT ![c] = [CommandAtRest EXCEPT !.step = "experiment"]]
  BY DEF StartExperiment, BeginCommand
<1>2. command'[c] = k
  BY <1>1, EvidenceFacts, CommandRest DEF CommandAtRest, Begun, CommandRecord
<1>3. k \in CommandRecord /\ k.step = "experiment"
  BY BegunFields DEF Begun, CommandRecord, Truth
<1> QED  BY <1>1, <1>2, <1>3

\* The review of a receipt in the inbox begins.
LEMMA BegunReview ==
  ASSUME EvidenceInv, NEW c \in Commands, NEW r \in Receipts, BeginReview(c, r)
  PROVE  \E k \in CommandRecord : /\ command' = [command EXCEPT ![c] = k]
                                 /\ k.step = "receipt" /\ k.about = r /\ k.receipt = r
<1> DEFINE pending == r \in inbox
           k == Begun("receipt", r, r, pending, FALSE)
<1>1. command' = [command EXCEPT ![c] = [CommandAtRest EXCEPT !.step = "receipt", !.about = r,
                                           !.receipt = r, !.pending = pending]]
  BY DEF BeginReview, BeginCommand
<1>2. pending \in Truth
  BY DEF Truth
<1> HIDE DEF pending
<1>3. command'[c] = k
  BY <1>1, <1>2, EvidenceFacts, CommandRest DEF CommandAtRest, Begun, CommandRecord
<1>4. k \in CommandRecord /\ k.step = "receipt" /\ k.about = r /\ k.receipt = r
  BY <1>2, BegunFields DEF Begun, CommandRecord, Truth
<1> QED  BY <1>1, <1>3, <1>4

\* The review of a receipt over MCP begins.
LEMMA BegunDirect ==
  ASSUME EvidenceInv, NEW c \in Commands, NEW r \in Receipts, BeginDirectReview(c, r)
  PROVE  \E k \in CommandRecord : /\ command' = [command EXCEPT ![c] = k]
                                 /\ k.step = "receipt" /\ k.about = None /\ k.receipt = r
<1> DEFINE k == Begun("receipt", None, r, FALSE, FALSE)
<1>1. command' = [command EXCEPT ![c] = [CommandAtRest EXCEPT !.step = "receipt", !.receipt = r]]
  BY DEF BeginDirectReview, BeginCommand
<1>2. command'[c] = k
  BY <1>1, EvidenceFacts, CommandRest DEF CommandAtRest, Begun, CommandRecord
<1>3. k \in CommandRecord /\ k.step = "receipt" /\ k.about = None /\ k.receipt = r
  BY BegunFields DEF Begun, CommandRecord, Truth
<1> QED  BY <1>1, <1>2, <1>3

\* A mission is looked at.
LEMMA BegunMission ==
  ASSUME EvidenceInv, NEW c \in Commands, NEW m \in Missions, ShowMission(c, m)
  PROVE  \E k \in CommandRecord : /\ command' = [command EXCEPT ![c] = k]
                                 /\ k.step = "shown" /\ k.about = m
<1> DEFINE k == Begun("shown", m, None, FALSE, FALSE)
<1>1. command' = [command EXCEPT ![c] = [CommandAtRest EXCEPT !.step = "shown", !.about = m]]
  BY DEF ShowMission, BeginCommand
<1>2. command'[c] = k
  BY <1>1, EvidenceFacts, CommandRest DEF CommandAtRest, Begun, CommandRecord
<1>3. k \in CommandRecord /\ k.step = "shown" /\ k.about = m
  BY BegunFields DEF Begun, CommandRecord, Truth
<1> QED  BY <1>1, <1>2, <1>3

\* Steps of a tick and of an experiment that leave the records alone.
LEMMA TickSteps ==
  ASSUME EvidenceInv, NEW c \in Commands,
         \/ StartTick(c) \/ RunMission(c) \/ CycleStops(c) \/ MemoryShort(c) \/ RecoverMemory(c)
         \/ NothingDue(c) \/ LookIntoInbox(c) \/ StartExperiment(c) \/ TrimAndInvokeAgain(c)
         \/ ExperimentStops(c)
  PROVE  EvidenceInv'
<1>1. /\ due' \in 0..MaxDue /\ UNCHANGED <<passes, broken, inboxVars, kept, ledger>>
  <2>1. CASE RunMission(c)
    BY <2>1, EvidenceAssumption DEF RunMission, EvidenceInv, EvidenceTypes, EvidenceFiles
  <2>2. CASE ~RunMission(c)
    <3>1. UNCHANGED <<missionVars, EvidenceFiles>>
      BY <2>2 DEF StartTick, CycleStops, MemoryShort, RecoverMemory, NothingDue, LookIntoInbox,
            StartExperiment, TrimAndInvokeAgain, ExperimentStops
    <3> QED  BY <3>1 DEF missionVars, EvidenceFiles, EvidenceInv, EvidenceTypes
  <2> QED  BY <2>1, <2>2
<1>2. kept' \in SUBSET Receipts
  BY <1>1 DEF EvidenceInv, EvidenceTypes
<1>3. \E k \in CommandRecord : command' = [command EXCEPT ![c] = k] /\ k.step \in PlainSteps
  <2>p. PlainSteps \subseteq CommandSteps
    BY DEF PlainSteps, CommandSteps
  <2>1. ASSUME NEW step \in PlainSteps, CommandGoes(c, step)
        PROVE  \E k \in CommandRecord : command' = [command EXCEPT ![c] = k] /\ k.step \in PlainSteps
    BY <2>p, <2>1, Goes
  <2>2. ASSUME NEW step \in PlainSteps, NEW field \in {"missions", "runs", "trims"},
               Worked(c, field, step)
        PROVE  \E k \in CommandRecord : command' = [command EXCEPT ![c] = k] /\ k.step \in PlainSteps
    BY <2>p, <2>2, WorkCounted
  <2>3. CASE StartTick(c)
    BY <2>3, BegunTick DEF PlainSteps
  <2>4. CASE StartExperiment(c)
    BY <2>4, BegunExperiment DEF PlainSteps
  <2>5. CASE RunMission(c)
    BY <2>5, <2>2 DEF RunMission, PlainSteps
  <2>6. CASE CycleStops(c) \/ MemoryShort(c) \/ NothingDue(c) \/ ExperimentStops(c)
    BY <2>6, <2>1 DEF CycleStops, MemoryShort, NothingDue, ExperimentStops, PlainSteps
  <2>7. CASE RecoverMemory(c)
    BY <2>7, <2>1, <2>2 DEF RecoverMemory, PlainSteps
  <2>8. CASE LookIntoInbox(c)
    BY <2>8, <2>1 DEF LookIntoInbox, PlainSteps
  <2>9. CASE TrimAndInvokeAgain(c)
    BY <2>9, <2>2 DEF TrimAndInvokeAgain, PlainSteps
  <2> QED  BY <2>3, <2>4, <2>5, <2>6, <2>7, <2>8, <2>9
<1> QED  BY <1>1, <1>2, <1>3, PlainInv, CommandMoves

\* A command ends.
LEMMA Ends ==
  ASSUME EvidenceInv, NEW c \in Commands, CommandEnds(c)
  PROVE  /\ command' = [command EXCEPT ![c] = CommandAtRest] /\ CommandAtRest \in CommandRecord
         /\ \A reviewed : CommandInv(CommandAtRest, reviewed)
  BY CommandRest DEF CommandEnds, CommandInv, CommandAtRest

\* A command ends, is killed or refused.
LEMMA EndSteps ==
  ASSUME EvidenceInv, NEW c \in Commands, WriteJournal(c) \/ CommandDies(c) \/ RefuseRecord(c)
  PROVE  EvidenceInv'
<1>1. /\ CommandEnds(c) /\ due' \in 0..MaxDue /\ kept' \in SUBSET Receipts
      /\ UNCHANGED <<passes, broken, inboxVars, ledger>>
  BY DEF WriteJournal, CommandDies, RefuseRecord, missionVars, EvidenceFiles, EvidenceInv,
     EvidenceTypes
<1> QED  BY <1>1, Ends, CommandMoves

\* The inbox takes a receipt.
LEMMA RunExperimentStep ==
  ASSUME EvidenceInv, NEW c \in Commands, NEW r \in Receipts, RunExperiment(c, r)
  PROVE  EvidenceInv'
<1>1. PICK k \in CommandRecord : command' = [command EXCEPT ![c] = k] /\ k.step \in PlainSteps
  <2>1. Worked(c, "runs", "journal")
    BY DEF RunExperiment
  <2>2. "journal" \in CommandSteps /\ "journal" \in PlainSteps
    BY DEF CommandSteps, PlainSteps
  <2> QED  BY <2>1, <2>2, WorkCounted
<1>2. /\ UNCHANGED <<due, passes, broken, archive, kept, ledger>>
      /\ \/ inbox' = inbox /\ accepted' = accepted
         \/ r \notin Failed /\ inbox' = inbox \cup {r} /\ accepted' = accepted \cup {r}
  BY DEF RunExperiment, missionVars
<1>3. Rows' = Rows /\ Reviewed' = Reviewed
  BY <1>2 DEF Rows, Reviewed
<1>4. ReviewsAreKept'
  BY <1>2, <1>3 DEF EvidenceInv, ReviewsAreKept
<1>5. EvidenceTypes'
  BY <1>1, <1>2 DEF EvidenceInv, EvidenceTypes
<1>6. \A d \in Commands : CommandInv(command'[d], Reviewed)
  BY <1>1, PlainInv DEF EvidenceInv, EvidenceTypes
<1> QED  BY <1>3, <1>4, <1>5, <1>6 DEF EvidenceInv, Honest

\* Reviews begin and keep their receipt.
LEMMA BeginSteps ==
  ASSUME EvidenceInv, NEW c \in Commands,
         \/ \E r \in Receipts : BeginReview(c, r) \/ BeginDirectReview(c, r)
         \/ \E m \in Missions : ShowMission(c, m)
  PROVE  EvidenceInv'
<1>1. /\ due' \in 0..MaxDue /\ kept' \in SUBSET Receipts
      /\ UNCHANGED <<passes, broken, inboxVars, ledger>>
  BY DEF BeginReview, BeginDirectReview, ShowMission, missionVars, EvidenceFiles, EvidenceInv,
     EvidenceTypes
<1>2. \E k \in CommandRecord : command' = [command EXCEPT ![c] = k] /\ CommandInv(k, Reviewed)
  <2>1. ASSUME NEW r \in Receipts, BeginReview(c, r)
        PROVE  \E k \in CommandRecord : command' = [command EXCEPT ![c] = k] /\ CommandInv(k, Reviewed)
    BY <2>1, BegunReview DEF CommandInv
  <2>2. ASSUME NEW r \in Receipts, BeginDirectReview(c, r)
        PROVE  \E k \in CommandRecord : command' = [command EXCEPT ![c] = k] /\ CommandInv(k, Reviewed)
    BY <2>2, BegunDirect DEF CommandInv
  <2>3. ASSUME NEW m \in Missions, ShowMission(c, m)
        PROVE  \E k \in CommandRecord : command' = [command EXCEPT ![c] = k] /\ CommandInv(k, Reviewed)
    BY <2>3, BegunMission DEF CommandInv
  <2> QED  BY <2>1, <2>2, <2>3
<1> QED  BY <1>1, <1>2, CommandMoves

\* A receipt is kept beside the inbox.
LEMMA KeepReceiptStep ==
  ASSUME EvidenceInv, NEW c \in Commands, KeepReceipt(c)
  PROVE  EvidenceInv'
<1> DEFINE r == command[c]
           created == r.receipt \notin kept
           k == [step |-> "record", work |-> r.work, scheduled |-> r.scheduled, about |-> r.about,
                 receipt |-> r.receipt, pending |-> r.pending, created |-> created]
<1>1. r \in CommandRecord /\ CommandInv(r, Reviewed) /\ command \in [Commands -> CommandRecord]
  BY EvidenceFacts
<1>2. r.receipt \in Receipts /\ r.about \in Receipts \cup {None}
  BY <1>1 DEF CommandInv, KeepReceipt
<1>3. due' \in 0..MaxDue /\ kept' \in SUBSET Receipts /\ UNCHANGED <<passes, broken, inboxVars, ledger>>
  BY <1>2 DEF KeepReceipt, EvidenceInv, EvidenceTypes, missionVars
<1>4. command' = [command EXCEPT ![c].step = "record", ![c].created = created]
  BY DEF KeepReceipt
<1>5. created \in Truth
  BY DEF Truth
<1> HIDE DEF created
<1>6. command'[c] = k
  BY <1>1, <1>4, <1>5 DEF CommandRecord
<1>7. command' = [command EXCEPT ![c] = k]
  BY <1>1, <1>4, <1>6 DEF CommandRecord
<1>8. k \in CommandRecord
  BY <1>1, <1>5 DEF CommandRecord, CommandSteps
<1>9. CommandInv(k, Reviewed)
  BY <1>2 DEF CommandInv
<1> HIDE DEF k
<1> QED  BY <1>3, <1>7, <1>8, <1>9, CommandMoves

\* A judgment is recorded.
LEMMA LedgerMoves ==
  ASSUME EvidenceInv, NEW c \in Commands, NEW k \in CommandRecord, NEW row \in Row, Honest(row),
         Len(ledger) < MaxReviews, ledger' = Append(ledger, row),
         command' = [command EXCEPT ![c] = k], CommandInv(k, Reviewed'),
         UNCHANGED <<missionVars, inboxVars, kept>>
  PROVE  EvidenceInv'
<1>1. Rows' = Rows \cup {row} /\ Reviewed \subseteq Reviewed'
  BY RowsGrow DEF EvidenceInv, EvidenceTypes
<1>2. ledger' \in Seq(Row) /\ Len(ledger') <= MaxReviews
  BY EvidenceAssumption DEF EvidenceInv, EvidenceTypes
<1>3. EvidenceTypes' /\ ReviewsAreKept'
  BY <1>1, <1>2 DEF EvidenceInv, EvidenceTypes, ReviewsAreKept, inboxVars, missionVars
<1>4. \A x \in Rows' : Honest(x)'
  BY <1>1 DEF EvidenceInv, Honest
<1>5. ASSUME NEW d \in Commands PROVE CommandInv(command'[d], Reviewed')
  <2>1. CASE d = c
    BY <2>1 DEF EvidenceInv, EvidenceTypes
  <2>2. CASE d # c
    BY <1>1, <2>2 DEF EvidenceInv, EvidenceTypes, CommandInv
  <2> QED  BY <2>1, <2>2
<1> QED  BY <1>3, <1>4, <1>5 DEF EvidenceInv

\* The review of a receipt is recorded.
LEMMA RecordReviewStep ==
  ASSUME EvidenceInv, NEW c \in Commands, NEW decision \in Decisions, RecordReview(c, decision)
  PROVE  EvidenceInv'
<1> DEFINE r == command[c].receipt
           about == IF command[c].about = None THEN Len(ledger) + 1 ELSE command[c].about
           passed == r \notin Failed
           row == [about |-> about, receipt |-> r, decision |-> decision, passed |-> passed]
<1>1. r \in Receipts /\ command[c].about \in Receipts \cup {None}
  BY EvidenceFacts DEF CommandInv, RecordReview
<1>2. Len(ledger) < MaxReviews /\ ledger' = Append(ledger, row) /\ UNCHANGED <<missionVars, inboxVars, kept>>
  BY DEF RecordReview, Append1
<1>3. about \in Receipts \cup NewIds
  <2>1. Len(ledger) \in Nat
    BY DEF EvidenceInv, EvidenceTypes
  <2>2. Len(ledger) + 1 \in 1..MaxReviews
    BY <1>2, <2>1, EvidenceAssumption
  <2> QED  BY <1>1, <2>2 DEF NewIds
<1> HIDE DEF about
<1>4. passed \in BOOLEAN /\ (decision = "accepted" => passed /\ r \notin Failed)
  BY DEF RecordReview
<1> HIDE DEF passed
<1>5. row \in Row /\ Honest(row) /\ row.receipt = r
  BY <1>1, <1>3, <1>4 DEF Row, Honest
<1> HIDE DEF row
<1>6. r \in Reviewed'
  BY <1>1, <1>2, <1>5, RowsGrow, EvidenceAssumption DEF EvidenceInv, EvidenceTypes
<1>7. CASE command[c].pending
  <2>1. PICK k \in CommandRecord : /\ command' = [command EXCEPT ![c] = k] /\ k.step = "archive"
                                   /\ k.about = command[c].about /\ k.receipt = r
    <3>1. CommandGoes(c, "archive") /\ "archive" \in CommandSteps
      BY <1>7 DEF RecordReview, CommandSteps
    <3> QED  BY <3>1, Goes
  <2>2. CommandInv(k, Reviewed')
    BY <1>1, <1>6, <2>1 DEF CommandInv
  <2> QED  BY <1>2, <1>5, <2>1, <2>2, LedgerMoves
<1>8. CASE ~command[c].pending
  <2>1. CommandEnds(c)
    BY <1>8 DEF RecordReview
  <2> QED  BY <1>2, <1>5, <2>1, Ends, LedgerMoves
<1> QED  BY <1>7, <1>8

\* The review of a mission is recorded.
LEMMA RecordMissionStep ==
  ASSUME EvidenceInv, NEW c \in Commands, NEW decision \in Decisions, RecordMission(c, decision)
  PROVE  EvidenceInv'
<1> DEFINE m == command[c].about
           row == [about |-> m, receipt |-> None, decision |-> decision, passed |-> passes[m]]
<1>1. m \in Missions
  BY EvidenceFacts DEF CommandInv, RecordMission
<1>2. Len(ledger) < MaxReviews /\ ledger' = Append(ledger, row) /\ UNCHANGED <<missionVars, inboxVars, kept>>
  BY DEF RecordMission, Append1
<1>3. passes[m] \in BOOLEAN /\ (decision = "accepted" => passes[m])
  BY <1>1 DEF RecordMission, MayRecord, EvidenceInv, EvidenceTypes
<1>4. row \in Row /\ Honest(row)
  BY <1>1, <1>3 DEF Row, Honest
<1> HIDE DEF row
<1>5. CommandEnds(c)
  BY DEF RecordMission
<1> QED  BY <1>2, <1>4, <1>5, Ends, LedgerMoves

\* A receipt moves to the archive; its review stands in the ledger.
LEMMA ArchiveStep ==
  ASSUME EvidenceInv, NEW c \in Commands, Archive(c)
  PROVE  EvidenceInv'
<1> DEFINE r == command[c].receipt
<1>1. r \in Receipts /\ r \in Reviewed
  BY EvidenceFacts DEF CommandInv, Archive, Archivable
<1>2. /\ UNCHANGED <<due, passes, broken, kept, ledger, accepted>>
      /\ r \in inbox /\ inbox' = inbox \ {r} /\ archive' = archive \cup {r} /\ CommandEnds(c)
  BY DEF Archive, missionVars
<1>3. Rows' = Rows /\ Reviewed' = Reviewed
  BY <1>2 DEF Rows, Reviewed
<1>4. ReviewsAreKept'
  BY <1>1, <1>2, <1>3 DEF EvidenceInv, ReviewsAreKept
<1>5. EvidenceTypes'
  BY <1>1, <1>2, Ends DEF EvidenceInv, EvidenceTypes
<1>6. \A d \in Commands : CommandInv(command'[d], Reviewed)
  BY <1>2, Ends DEF EvidenceInv, EvidenceTypes
<1> QED  BY <1>3, <1>4, <1>5, <1>6 DEF EvidenceInv, Honest

\* Missions change, and are looked at again.
LEMMA MissionSteps ==
  ASSUME EvidenceInv, \/ \E m \in Missions : Reevaluate(m) \/ EditReport(m)
                      \/ \E c \in Commands : RecheckMission(c)
  PROVE  EvidenceInv'
<1>1. ASSUME NEW m \in Missions, Reevaluate(m) \/ EditReport(m) PROVE EvidenceInv'
  <2>1. UNCHANGED <<due, inboxVars, kept, ledger, command>>
    BY <1>1 DEF Reevaluate, EditReport, EvidenceFiles
  <2>2. passes' \in [Missions -> BOOLEAN] /\ broken' \in SUBSET Missions
    BY <1>1 DEF Reevaluate, EditReport, EvidenceInv, EvidenceTypes
  <2>3. Rows' = Rows /\ Reviewed' = Reviewed
    BY <2>1 DEF Rows, Reviewed
  <2> QED  BY <2>1, <2>2, <2>3 DEF EvidenceInv, EvidenceTypes, ReviewsAreKept, inboxVars, Honest
<1>2. ASSUME NEW c \in Commands, RecheckMission(c) PROVE EvidenceInv'
  <2>1. PICK k \in CommandRecord : /\ command' = [command EXCEPT ![c] = k] /\ k.step = "rechecked"
                                   /\ k.about = command[c].about
    <3>1. CommandGoes(c, "rechecked") /\ "rechecked" \in CommandSteps
      BY <1>2 DEF RecheckMission, CommandSteps
    <3> QED  BY <3>1, Goes
  <2>2. CommandInv(k, Reviewed)
    BY <1>2, <2>1, EvidenceFacts DEF RecheckMission, CommandInv
  <2>3. /\ due' \in 0..MaxDue /\ kept' \in SUBSET Receipts
        /\ UNCHANGED <<passes, broken, inboxVars, ledger>>
    BY <1>2 DEF RecheckMission, missionVars, EvidenceFiles, EvidenceInv, EvidenceTypes
  <2> QED  BY <2>1, <2>2, <2>3, CommandMoves
<1> QED  BY <1>1, <1>2

\* Every step keeps the invariant.
LEMMA EvidenceStepInv == EvidenceInv /\ [EvidenceNext]_evidenceVars => EvidenceInv'
<1> SUFFICES ASSUME EvidenceInv, [EvidenceNext]_evidenceVars PROVE EvidenceInv'
  OBVIOUS
<1>1. CASE UNCHANGED evidenceVars
  <2>1. UNCHANGED <<due, passes, broken, inbox, archive, accepted, kept, ledger, command>>
    BY <1>1 DEF evidenceVars, missionVars, inboxVars
  <2>2. Rows' = Rows /\ Reviewed' = Reviewed
    BY <2>1 DEF Rows, Reviewed
  <2> QED  BY <2>1, <2>2 DEF EvidenceInv, EvidenceTypes, ReviewsAreKept, Honest
<1>2. CASE EvidenceNext
  BY <1>2, TickSteps, EndSteps, RunExperimentStep, BeginSteps, KeepReceiptStep, RecordReviewStep,
     RecordMissionStep, ArchiveStep, MissionSteps DEF EvidenceNext
<1> QED  BY <1>1, <1>2

\* Files, rows and commands keep their types (product evidence in core.py and
\* mcp_server.py).
THEOREM EvidenceTypesTheorem == EvidenceSpec => []EvidenceTypeOK
<1>1. EvidenceInv => EvidenceTypeOK
  BY DEF EvidenceInv, EvidenceTypes, EvidenceTypeOK, CommandRecord
<1> QED  BY <1>1, EvidenceInitInv, EvidenceStepInv, PTL DEF EvidenceSpec

\* No receipt that the inbox took is lost, and none is archived without a
\* recorded review, for any receipts, commands and crashes: the review stands
\* in the ledger before its receipt moves.
THEOREM ReviewsKeptTheorem == EvidenceSpec => []ReviewsAreKept
<1>1. EvidenceInv => ReviewsAreKept
  BY DEF EvidenceInv
<1> QED  BY <1>1, EvidenceInitInv, EvidenceStepInv, PTL DEF EvidenceSpec

\* What counts as accepted passes now: a row was honest when it was recorded,
\* and one that has become stale is not counted.
THEOREM AcceptedTheorem == EvidenceSpec => []AcceptedResultsPass
<1>1. EvidenceInv => AcceptedResultsPass
  <2> SUFFICES ASSUME EvidenceInv, NEW row \in Counted, row.decision = "accepted"
               PROVE  IF row.about \in Missions THEN passes[row.about] /\ row.about \notin broken
                                                ELSE row.receipt \notin Failed
    BY DEF AcceptedResultsPass
  <2>1. row \in Rows /\ Current(row)
    BY DEF Counted, Latest, Rows
  <2>2. Honest(row)
    BY <2>1 DEF EvidenceInv
  <2> QED  BY <2>1, <2>2 DEF Honest, Current
<1> QED  BY <1>1, EvidenceInitInv, EvidenceStepInv, PTL DEF EvidenceSpec
=============================================================================
