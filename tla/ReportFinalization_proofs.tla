---------------------- MODULE ReportFinalization_proofs ----------------------
(***************************************************************************)
(* Theorems about ReportFinalization, for any sets of reports, temporary   *)
(* names, workers and tokens.                                              *)
(***************************************************************************)
EXTENDS ReportFinalization, TLAPS

----------------------------------------------------------------------------
\* Types

\* A running mission, a working process and a transaction have tokens, and a
\* transaction that got past its examination has the intent it seals.
Base ==
  /\ status = "running" <=> runToken # None
  /\ \A w \in Workers : wk[w].pc # "idle" => wk[w].tok # None
  /\ tx # None /\ tx.step # "examine" => intent # None /\ intent.tok = tx.tok

\* The first state is well typed.
LEMMA InitType == Init => TypeOK /\ Base
  BY NamesAssumption DEF Init, TypeOK, Base, Worker, Idle, Names, Content

\* No value of a variable that may be None is confused with it.
LEMMA NoneIsNone ==
  /\ None \notin Intent /\ None \notin Tx /\ None \notin Tokens
  /\ \A i \in Intent : i.tok \in Tokens /\ i.temp \in Temps /\ i.report \in Reports
  /\ \A i \in Intent : i.temp \in Names /\ i.temp # Output
  /\ Idle \in Worker /\ Output \in Names
<1>1. None \notin Tokens  BY NamesAssumption
<1>2. Idle \in Worker  BY DEF Idle, Worker
<1> QED  BY <1>1, <1>2, NamesAssumption, RowsAssumption DEF Intent, Tx, Names

\* The pieces of a typed state that the proofs below take apart again and again.
LEMMA Typed ==
  ASSUME TypeOK
  PROVE  /\ intent # None => intent \in Intent
         /\ tx # None => /\ tx \in Tx /\ tx.who \in Workers /\ tx.tok \in Tokens
                         /\ tx.own \in BOOLEAN
         /\ \A w \in Workers : wk[w] \in Worker
  BY DEF TypeOK, Tx

\* Executing, preparing and beginning a transaction keep every type.
LEMMA CallType ==
  ASSUME TypeOK, Base, NEW w \in Workers, Call(w) \/ Work(w)
  PROVE  TypeOK' /\ Base'
<1> USE DEF TypeOK, rowVars, fileVars
<1>1. ASSUME NEW t \in Fresh, Execute(w, t)  PROVE TypeOK' /\ Base'
  <2>1. t \in Tokens /\ t # None  BY NoneIsNone DEF Fresh
  <2>2. [pc |-> "reporting", tok |-> t] \in Worker  BY <2>1 DEF Worker
  <2> QED  BY <1>1, <2>1, <2>2 DEF Execute, Base
<1>2. ASSUME NEW r \in Reports, NEW n \in Temps, PrepareReport(w, r, n)
      PROVE  TypeOK' /\ Base'
  <2>1. wk[w].tok \in Tokens  BY <1>2 DEF PrepareReport, Base, Worker
  <2>2. [tok |-> wk[w].tok, temp |-> n, report |-> r] \in Intent
    BY <2>1 DEF Intent
  <2>3. [wk[w] EXCEPT !.pc = "sealing"] \in Worker  BY DEF Worker
  <2>4. TypeOK'
    BY <1>2, <2>2, <2>3, NoneIsNone DEF PrepareReport
  <2>5. \A v \in Workers : wk'[v].pc # "idle" => wk'[v].tok # None
    BY <1>2, <2>1, NoneIsNone DEF PrepareReport, Base, Idle, Worker
  <2> QED  BY <1>2, <2>4, <2>5 DEF PrepareReport, Base
<1>3. ASSUME BeginSeal(w)  PROVE TypeOK' /\ Base'
  <2>1. wk[w].tok \in Tokens  BY <1>3 DEF BeginSeal, Base, Worker
  <2>2. [who |-> w, tok |-> wk[w].tok, recovered |-> FALSE,
         step |-> "examine", own |-> FALSE] \in Tx
    BY <2>1 DEF Tx, Steps
  <2> QED  BY <1>3, <2>2 DEF BeginSeal, Base
<1>4. ASSUME BeginRecovery(w)  PROVE TypeOK' /\ Base'
  <2>1. runToken \in Tokens  BY <1>4 DEF BeginRecovery, Base
  <2>2. [who |-> w, tok |-> runToken, recovered |-> TRUE,
         step |-> "examine", own |-> FALSE] \in Tx
    BY <2>1 DEF Tx, Steps
  <2> QED  BY <1>4, <2>2 DEF BeginRecovery, Base
<1> QED  BY <1>1, <1>2, <1>3, <1>4 DEF Call, Work

\* However a transaction ends without a seal, types are kept.
LEMMA EndType ==
  ASSUME TypeOK, Base, tx # None, EndTx
  PROVE  /\ wk' \in [Workers -> Worker] /\ tx' = None
         /\ \A v \in Workers : wk'[v].pc # "idle" => wk'[v].tok # None
         /\ GiveUp => /\ status' \in {"running", "interrupted", "complete"}
                      /\ runToken' \in Tokens \cup {None}
                      /\ intent' \in Intent \cup {None}
                      /\ status' = "running" <=> runToken' # None
  BY NoneIsNone DEF TypeOK, Base, EndTx, GiveUp, Idle, Worker

\* A refused seal keeps every type.
LEMMA RefuseType ==
  ASSUME TypeOK, Base, tx # None, Refuse
  PROVE  TypeOK' /\ Base'
  BY EndType DEF Refuse, TypeOK, Base, fileVars

\* Moving on within a transaction keeps every type.
LEMMA GoOnType ==
  ASSUME TypeOK, Base, tx # None, NEW s \in Steps,
         tx' = [tx EXCEPT !.step = s] \/ tx' = [tx EXCEPT !.step = s, !.own = TRUE],
         UNCHANGED <<rowVars, wk>>, Sealable,
         files' \in [Names -> Content], disk' \in [Names -> Content],
         synced' \subseteq Names
  PROVE  TypeOK' /\ Base'
<1>1. /\ tx' \in Tx /\ tx'.tok = tx.tok
  BY Typed DEF Tx
<1> QED  BY <1>1 DEF TypeOK, Base, Sealable, rowVars

\* The file steps of a sealing transaction keep every type.
LEMMA SealType ==
  ASSUME TypeOK, Base, Seal
  PROVE  TypeOK' /\ Base'
<1>s. \A s : At(s) /\ s # "examine" =>
        tx # None /\ intent \in Intent /\ Sealable
  BY Typed DEF At, Base, Sealable
<1>f. files \in [Names -> Content] /\ disk \in [Names -> Content]
      /\ synced \subseteq Names
  BY DEF TypeOK
<1>c. /\ Torn \in Content /\ None \in Content
      /\ \A i \in Intent : i.report \in Content
  BY NoneIsNone DEF Content
<1>p. \A s \in {"examine", "write", "writing", "replace", "sync", "verify",
                "commit"} : s \in Steps
  BY DEF Steps
<1> USE DEF fileVars
<1>1. ASSUME Examine  PROVE TypeOK' /\ Base'
  <2>1. tx # None  BY <1>1 DEF Examine, At
  <2>2. CASE Refuse  BY <2>1, <2>2, RefuseType
  <2>3. CASE ~Refuse
    <3>1. Examined \in Steps
      BY <1>1, <1>p, <2>3 DEF Examine, Examined
    <3> QED  BY <1>1, <1>f, <2>1, <2>3, <3>1, GoOnType DEF Examine, GoOn
  <2> QED  BY <2>2, <2>3
<1>2. ASSUME CreateTemporary  PROVE TypeOK' /\ Base'
  <2>1. tx # None /\ intent \in Intent /\ Sealable
    BY <1>2, <1>s DEF CreateTemporary
  <2>2. files' \in [Names -> Content] /\ disk' \in [Names -> Content]
        /\ synced' \subseteq Names
    BY <1>2, <1>f, <1>c DEF CreateTemporary
  <2> QED  BY <1>2, <1>p, <2>1, <2>2, GoOnType DEF CreateTemporary, GoOn
<1>3. ASSUME WriteTemporary  PROVE TypeOK' /\ Base'
  <2>1. tx # None /\ intent \in Intent /\ Sealable
    BY <1>3, <1>s DEF WriteTemporary
  <2>2. files' \in [Names -> Content] /\ disk' \in [Names -> Content]
        /\ synced' \subseteq Names
    BY <1>3, <1>f, <1>c, <2>1, NoneIsNone DEF WriteTemporary
  <2> QED  BY <1>3, <1>p, <2>1, <2>2, GoOnType DEF WriteTemporary
<1>4. ASSUME ReplaceReport  PROVE TypeOK' /\ Base'
  <2>1. tx # None /\ intent \in Intent /\ Sealable
    BY <1>4, <1>s DEF ReplaceReport
  <2>2. files' \in [Names -> Content] /\ disk' \in [Names -> Content]
        /\ synced' \subseteq Names
    BY <1>4, <1>f, <1>c, <2>1, NoneIsNone DEF ReplaceReport
  <2> QED  BY <1>4, <1>p, <2>1, <2>2, GoOnType DEF ReplaceReport, GoOn
<1>5. ASSUME SyncDirectory  PROVE TypeOK' /\ Base'
  <2>1. tx # None /\ intent \in Intent /\ Sealable
    BY <1>5, <1>s DEF SyncDirectory
  <2>2. files' \in [Names -> Content] /\ disk' \in [Names -> Content]
        /\ synced' \subseteq Names
    BY <1>5, <1>f, <1>c DEF SyncDirectory, Flushed
  <2> QED  BY <1>5, <1>p, <2>1, <2>2, GoOnType DEF SyncDirectory, GoOn
<1>6. ASSUME VerifyReport  PROVE TypeOK' /\ Base'
  <2>1. tx # None /\ intent \in Intent /\ Sealable
    BY <1>6, <1>s DEF VerifyReport
  <2>2. CASE Refuse  BY <2>1, <2>2, RefuseType
  <2>3. CASE ~Refuse
    BY <1>6, <1>f, <1>p, <2>1, <2>3, GoOnType DEF VerifyReport, GoOn
  <2> QED  BY <2>2, <2>3
<1>7. ASSUME Commit  PROVE TypeOK' /\ Base'
  <2>1. tx # None /\ intent \in Intent /\ EndTx
    BY <1>7, <1>s DEF Commit
  <2>2. /\ wk' \in [Workers -> Worker] /\ tx' = None
        /\ \A v \in Workers : wk'[v].pc # "idle" => wk'[v].tok # None
    BY <2>1, EndType
  <2> QED
    BY <1>7, <2>1, <2>2, NoneIsNone DEF Commit, TypeOK, Base, rowVars
<1> QED  BY <1>1, <1>2, <1>3, <1>4, <1>5, <1>6, <1>7 DEF Seal

\* File errors, dying processes and power failures keep every type.
LEMMA FaultType ==
  ASSUME TypeOK, Base, Fault
  PROVE  TypeOK' /\ Base'
<1> USE DEF rowVars, fileVars
<1>1. ASSUME IOError  PROVE TypeOK' /\ Base'
  <2>1. tx # None /\ EndTx /\ UNCHANGED <<rowVars, synced, disk>>
    BY <1>1 DEF IOError, Defer
  <2>2. files' \in [Names -> Content]
    BY <1>1 DEF IOError, TypeOK, Content
  <2> QED  BY <2>1, <2>2, EndType DEF TypeOK, Base
<1>2. ASSUME NEW w \in Workers, Crash(w)  PROVE TypeOK' /\ Base'
  BY <1>2, NoneIsNone DEF Crash, TypeOK, Base, Idle
<1>3. ASSUME PowerFailure  PROVE TypeOK' /\ Base'
  <2>1. files' \in [Names -> Content]
    BY <1>3 DEF PowerFailure, TypeOK, Content
  <2> QED  BY <1>3, <2>1, NoneIsNone DEF PowerFailure, TypeOK, Base, Idle
<1> QED  BY <1>1, <1>2, <1>3 DEF Fault

\* Every step keeps every type.
LEMMA TypeStep ==
  ASSUME TypeOK, Base, [Next]_vars
  PROVE  TypeOK' /\ Base'
<1>1. CASE UNCHANGED vars
  BY <1>1 DEF TypeOK, Base, vars, rowVars, fileVars
<1> QED  BY <1>1, CallType, SealType, FaultType DEF Next

\* Rows, files and local variables keep their types, even when power fails.
THEOREM ReportTypeCorrect == Spec => []TypeOK
  BY InitType, TypeStep, PTL DEF Spec

----------------------------------------------------------------------------
\* What a transaction has done when it commits

\* A transaction that is about to commit saw the report it seals; one that
\* wrote the report itself flushed the file, then the directory.
Progress ==
  /\ At("commit") => files[Output] = intent.report
  /\ tx # None /\ tx.own =>
       /\ tx.step \in {"replace", "sync", "verify", "commit"}
       /\ tx.step = "replace" => intent.temp \in synced
       /\ tx.step = "sync" => Output \in synced
       /\ tx.step \in {"verify", "commit"} => disk[Output] = files[Output]

\* A transaction begins with nothing done.
LEMMA ProgressCall ==
  ASSUME TypeOK, NEW w \in Workers, Call(w) \/ Work(w)
  PROVE  Progress'
  BY DEF Progress, At, Call, Work, Execute, PrepareReport, BeginSeal,
         BeginRecovery

\* It keeps this while it goes on, ...
LEMMA ProgressSeal ==
  ASSUME TypeOK, Base, Progress, Seal
  PROVE  Progress'
<1>s. \A s : At(s) /\ s # "examine" => tx \in Tx /\ intent \in Intent
  BY Typed DEF At, Base
<1>t. tx # None => tx \in Tx /\ tx.own \in BOOLEAN  BY Typed
<1>0. tx' = None => Progress'  BY DEF Progress, At
<1> USE DEF Progress, At, rowVars, fileVars
<1>1. ASSUME Examine  PROVE Progress'
  <2>1. CASE Refuse  BY <1>0, <2>1 DEF Refuse, EndTx
  <2>2. CASE ~Refuse
    <3>1. /\ tx \in Tx /\ ~tx.own
          /\ tx'.step = Examined /\ tx'.own = tx.own
          /\ UNCHANGED <<intent, files>>
      BY <1>1, <1>t, <2>2 DEF Examine, GoOn, Tx
    <3>2. Examined = "commit" => files[Output] = intent.report
      BY DEF Examined, Matches
    <3> QED  BY <3>1, <3>2
  <2> QED  BY <2>1, <2>2
<1>2. ASSUME CreateTemporary  PROVE Progress'
  <2>1. tx \in Tx /\ ~tx.own  BY <1>2, <1>s DEF CreateTemporary
  <2>2. tx'.step = "writing" /\ tx'.own = tx.own
    BY <1>2, <2>1 DEF CreateTemporary, GoOn, Tx
  <2> QED  BY <2>1, <2>2
<1>3. ASSUME WriteTemporary  PROVE Progress'
  <2>1. tx'.step = "replace" /\ tx'.own
    BY <1>3, <1>s DEF WriteTemporary, Tx
  <2>2. intent'.temp \in synced'  BY <1>3 DEF WriteTemporary
  <2> QED  BY <2>1, <2>2
<1>4. ASSUME ReplaceReport  PROVE Progress'
  <2>1. tx'.step = "sync" /\ tx'.own = tx.own
    BY <1>4, <1>s DEF ReplaceReport, GoOn, Tx
  <2>2. tx.own => Output \in synced'
    BY <1>4 DEF ReplaceReport
  <2> QED  BY <2>1, <2>2
<1>5. ASSUME SyncDirectory  PROVE Progress'
  <2>1. tx'.step = "verify" /\ tx'.own = tx.own
    BY <1>5, <1>s DEF SyncDirectory, GoOn, Tx
  <2>2. tx.own => disk'[Output] = files'[Output]
    BY <1>5, NoneIsNone DEF SyncDirectory, Flushed
  <2> QED  BY <2>1, <2>2
<1>6. ASSUME VerifyReport  PROVE Progress'
  <2>1. CASE Refuse  BY <1>0, <2>1 DEF Refuse, EndTx
  <2>2. CASE ~Refuse
    <3>1. /\ tx'.step = "commit" /\ tx'.own = tx.own
          /\ UNCHANGED <<intent, files, disk>> /\ tx.step = "verify"
          /\ files[Output] = intent.report
      BY <1>6, <1>s, <2>2 DEF VerifyReport, GoOn, Tx, Matches
    <3>2. tx.own => disk[Output] = files[Output]  BY <1>6, <3>1 DEF VerifyReport
    <3> QED  BY <3>1, <3>2
  <2> QED  BY <2>1, <2>2
<1>7. Commit => Progress'  BY <1>0 DEF Commit, EndTx
<1> QED  BY <1>1, <1>2, <1>3, <1>4, <1>5, <1>6, <1>7 DEF Seal

\* ... and ends with whatever interrupts it.
LEMMA ProgressStep ==
  ASSUME TypeOK, Base, Progress, [Next]_vars
  PROVE  Progress'
<1>0. tx' = None => Progress'  BY DEF Progress, At
<1>1. IOError => Progress'  BY <1>0 DEF IOError, Defer, EndTx
<1>2. PowerFailure => Progress'  BY <1>0 DEF PowerFailure
<1>3. ASSUME NEW w \in Workers, Crash(w)  PROVE Progress'
  BY <1>0, <1>3 DEF Crash, Progress, At, rowVars, fileVars
<1>4. UNCHANGED vars => Progress'
  BY DEF Progress, At, vars, rowVars, fileVars
<1> QED
  BY <1>1, <1>2, <1>3, <1>4, ProgressCall, ProgressSeal DEF Next, Fault

\* At first there is no transaction.
LEMMA ProgressInit == Init => Progress
  BY DEF Init, Progress, At

\* The ledger says complete only after the report would survive a power
\* failure, when the transaction published the report itself
\* (DiskBeforeLedger).
THEOREM DiskAlwaysBeforeLedger == Spec => []DiskBeforeLedger
<1>1. Progress => DiskBeforeLedger  BY DEF Progress, DiskBeforeLedger, At
<1> QED
  BY <1>1, InitType, TypeStep, ProgressInit, ProgressStep, PTL DEF Spec

\* Suspicious artifacts are never registered: even after a power failure tore
\* or lost files, a mission is sealed only as the report that is visible at
\* that moment (SealsWhatItSees).
THEOREM SealsOnlyWhatItSees == Spec => SealsWhatItSees
<1> DEFINE Seen == sealedAs' # sealedAs => files[Output] = sealedAs'
<1>1. ASSUME Progress, [Next]_vars, sealedAs' # sealedAs
      PROVE  files[Output] = sealedAs'
  <2>1. Commit
    BY <1>1 DEF Next, Call, Work, Execute, PrepareReport, BeginSeal,
       BeginRecovery, Seal, Examine, CreateTemporary, WriteTemporary,
       ReplaceReport, SyncDirectory, VerifyReport, Refuse, Fault, IOError,
       Defer, Crash, PowerFailure, vars, rowVars
  <2> QED  BY <1>1, <2>1 DEF Commit, Progress, rowVars
<1>2. Progress /\ [Next]_vars => [Seen]_vars  BY <1>1
<1>3. ([][Seen]_vars) => SealsWhatItSees  BY PTL DEF SealsWhatItSees
<1> QED
  BY <1>2, <1>3, InitType, TypeStep, ProgressInit, ProgressStep, PTL DEF Spec

\* An intent belongs to the lease of the mission that runs, and so does recovery.
Promised ==
  /\ intent # None => status = "running" /\ intent.tok = runToken
  /\ tx # None /\ tx.recovered => status = "running" /\ tx.tok = runToken

\* Every step keeps that.
LEMMA PromisedStep ==
  ASSUME TypeOK, Promised, [Next]_vars
  PROVE  Promised'
<1> USE DEF Promised, rowVars, fileVars
<1>1. CASE UNCHANGED vars  BY <1>1 DEF vars
<1>2. ASSUME NEW w \in Workers, NEW t \in Fresh, Execute(w, t)  PROVE Promised'
  BY <1>2 DEF Execute
<1>3. ASSUME NEW w \in Workers, NEW r \in Reports, NEW n \in Temps, PrepareReport(w, r, n)
      PROVE  Promised'
  <2>1. CASE UNCHANGED intent  BY <1>3, <2>1 DEF PrepareReport
  <2>2. CASE ~UNCHANGED intent
    <3>1. /\ LeaseActive(w) /\ intent' = [tok |-> wk[w].tok, temp |-> n, report |-> r]
          /\ tx = None /\ UNCHANGED <<status, runToken, tx>>
      BY <1>3, <2>2 DEF PrepareReport
    <3> QED  BY <3>1 DEF LeaseActive
  <2> QED  BY <2>1, <2>2
<1>4. ASSUME NEW w \in Workers, BeginSeal(w) \/ BeginRecovery(w)  PROVE Promised'
  BY <1>4 DEF BeginSeal, BeginRecovery
<1>5. ASSUME tx' = None, UNCHANGED rowVars \/ intent' = None  PROVE Promised'
  BY <1>5
<1>6. ASSUME UNCHANGED <<status, runToken, intent>>, tx # None, tx' # None,
             tx'.tok = tx.tok, tx'.recovered = tx.recovered
      PROVE  Promised'
  BY <1>6
<1>7. ASSUME Refuse  PROVE Promised'
  BY <1>5, <1>7 DEF Refuse, EndTx, GiveUp
<1>8. ASSUME tx # None, NEW s \in Steps, GoOn(s), UNCHANGED rowVars  PROVE Promised'
  <2>1. tx' \in Tx /\ tx'.tok = tx.tok /\ tx'.recovered = tx.recovered
    BY <1>8, Typed DEF GoOn, Tx
  <2>2. tx' # None
    BY <2>1, NoneIsNone
  <2> QED  BY <1>6, <1>8, <2>1, <2>2
<1>9. ASSUME Seal  PROVE Promised'
  <2>0. Examined \in Steps \cup {"refuse"} /\ {"writing", "replace", "sync", "verify", "commit"} \subseteq Steps
    BY DEF Examined, Steps
  <2> USE <2>0
  <2>1. CASE Examine  BY <1>7, <1>8, <2>1 DEF Examine, At
  <2>2. CASE CreateTemporary  BY <1>8, <2>2 DEF CreateTemporary, At
  <2>3. CASE WriteTemporary
    <3>1. tx # None /\ tx' = [tx EXCEPT !.step = "replace", !.own = TRUE] /\ UNCHANGED rowVars
      BY <2>3 DEF WriteTemporary, At
    <3>2. tx' \in Tx /\ tx'.tok = tx.tok /\ tx'.recovered = tx.recovered
      BY <3>1, Typed DEF Tx
    <3> QED  BY <1>6, <3>1, <3>2, NoneIsNone
  <2>4. CASE ReplaceReport  BY <1>8, <2>4 DEF ReplaceReport, At
  <2>5. CASE SyncDirectory  BY <1>8, <2>5 DEF SyncDirectory, At
  <2>6. CASE VerifyReport  BY <1>7, <1>8, <2>6 DEF VerifyReport, At
  <2>7. CASE Commit  BY <1>5, <2>7 DEF Commit, EndTx
  <2> QED  BY <1>9, <2>1, <2>2, <2>3, <2>4, <2>5, <2>6, <2>7 DEF Seal
<1>10. ASSUME Fault  PROVE Promised'
  BY <1>10 DEF Fault, IOError, Defer, EndTx, Crash, PowerFailure
<1> QED
  BY <1>1, <1>2, <1>3, <1>4, <1>9, <1>10 DEF Next, Call, Work

\* While the report is visible as promised, the promise ends with the seal alone,
\* even with power failures (PublishedGetsSealed; recovery's registration of an
\* exact matching final report).
THEOREM PublishedIsSealed == Spec => PublishedGetsSealed
<1>1. ASSUME TypeOK, Base, Promised, [Next]_vars, intent # None,
             files[Output] = intent.report, intent' = None, status' # "complete"
      PROVE  FALSE
  <2>1. Refuse
    BY <1>1 DEF Next, Call, Work, Execute, PrepareReport, BeginSeal,
       BeginRecovery, Seal, Examine, CreateTemporary, WriteTemporary, Commit,
       ReplaceReport, SyncDirectory, VerifyReport, Fault, IOError,
       Defer, Crash, PowerFailure, vars, rowVars
  <2>2. tx.recovered
    BY <1>1, <2>1 DEF Refuse, GiveUp
  <2>3. Exists(Output) /\ Matches(Output)
    BY <1>1, NoneIsNone, NamesAssumption, Typed DEF Exists, Matches
  <2>4. CASE Examine
    <3>1. Sealable /\ Examined = "commit"
      BY <1>1, <2>2, <2>3, <2>4 DEF Examine, At, Promised, Sealable, Examined
    <3> QED  BY <2>4, <3>1, <1>1 DEF Examine, rowVars
  <2>5. CASE VerifyReport
    BY <1>1, <2>3, <2>5 DEF VerifyReport, rowVars
  <2>6. Examine \/ VerifyReport
    BY <1>1 DEF Next, Call, Work, Execute, PrepareReport, BeginSeal,
       BeginRecovery, Seal, CreateTemporary, WriteTemporary, Commit,
       ReplaceReport, SyncDirectory, Fault, IOError,
       Defer, Crash, PowerFailure, vars, rowVars
  <2> QED  BY <2>4, <2>5, <2>6
<1>2. TypeOK /\ Base /\ Promised /\ [Next]_vars
        => [intent # None /\ files[Output] = intent.report /\ intent' = None
              => status' = "complete"]_intent
  BY <1>1
<1>3. Init => Promised
  BY DEF Init, Promised
<1> QED
  BY <1>2, <1>3, InitType, TypeStep, PromisedStep, PTL DEF Spec, PublishedGetsSealed

----------------------------------------------------------------------------
\* Without power failures: journal, directory and ledger agree

\* A report that is visible is either sealed or promised by the intent of the
\* mission that runs; the last three parts say how far a transaction has come.
Agreement ==
  /\ status # "complete" => sealedAs = None
  /\ status = "complete" => sealedAs # None /\ files[Output] = sealedAs
  /\ intent # None => status = "running" /\ intent.tok = runToken
  /\ status # "complete" /\ files[Output] # None =>
       intent # None /\ files[Output] = intent.report
  /\ tx # None /\ tx.recovered => status = "running" /\ tx.tok = runToken
  /\ tx # None /\ tx.step \in {"write", "writing", "replace"} =>
       files[Output] = None
  /\ At("replace") => files[intent.temp] = intent.report
  /\ tx # None /\ tx.step \in {"sync", "verify", "commit"} =>
       files[Output] = intent.report

\* What a step is for ReportSeal.
Abstract == RS!Next \/ UNCHANGED RS!rsVars

\* At first nothing is promised, visible or sealed.
LEMMA AgreementInit == Init => Agreement /\ RS!Init
  BY DEF Init, Agreement, At, Names, RS!Init

\* A mission starts or recovers with nothing visible, and promises one report.
LEMMA AgreementCall ==
  ASSUME TypeOK, Base, Agreement, NEW w \in Workers, Call(w) \/ Work(w)
  PROVE  Agreement' /\ Abstract
<1> USE DEF Agreement, At, rowVars, fileVars
<1>1. ASSUME NEW t \in Fresh, Execute(w, t)  PROVE Agreement' /\ Abstract
  BY <1>1 DEF Execute, Abstract, RS!rsVars
<1>2. ASSUME NEW r \in Reports, NEW n \in Temps, PrepareReport(w, r, n)
      PROVE  Agreement' /\ Abstract
  <2>1. CASE UNCHANGED intent
    BY <1>2, <2>1 DEF PrepareReport, Abstract, RS!rsVars
  <2>2. CASE ~UNCHANGED intent
    <3>1. /\ tx = None /\ LeaseActive(w) /\ intent = None
          /\ intent' = [tok |-> wk[w].tok, temp |-> n, report |-> r]
          /\ UNCHANGED <<status, runToken, sealedAs, files, disk, synced, tx>>
      BY <1>2, <2>2 DEF PrepareReport
    <3>2. wk[w].tok \in Tokens
      BY <1>2 DEF PrepareReport, Base, TypeOK, Worker
    <3>3. intent' # None /\ intent'.report = r /\ intent'.tok = runToken
      BY <3>1, <3>2, NoneIsNone DEF Intent, LeaseActive
    <3>4. files[Output] = None /\ sealedAs = None /\ status = "running"
      BY <3>1 DEF LeaseActive
    <3>5. Agreement'  BY <3>1, <3>3, <3>4
    <3>6. RS!Promise(r)  BY <3>1, <3>3, <3>4 DEF RS!Promise
    <3> QED  BY <3>5, <3>6 DEF Abstract, RS!Next
  <2> QED  BY <2>1, <2>2
<1>3. ASSUME BeginSeal(w) \/ BeginRecovery(w)  PROVE Agreement' /\ Abstract
  BY <1>3 DEF BeginSeal, BeginRecovery, Abstract, RS!rsVars
<1> QED  BY <1>1, <1>2, <1>3 DEF Call, Work

\* A refused seal withdraws a promise only when nothing is visible.
LEMMA AgreementRefuse ==
  ASSUME TypeOK, Base, Agreement, tx # None, Refuse,
         intent # None /\ tx.recovered => files[Output] = None
  PROVE  Agreement' /\ Abstract
<1>1. tx' = None /\ UNCHANGED <<sealedAs, files>>
  BY DEF Refuse, EndTx, fileVars
<1>2. CASE UNCHANGED <<status, runToken, intent>>
  BY <1>1, <1>2 DEF Agreement, At, Abstract, RS!rsVars
<1>3. CASE tx.recovered /\ status' = "interrupted" /\ runToken' = None
           /\ intent' = None
  <2>1. status = "running" /\ files[Output] = None
    BY <1>3 DEF Agreement
  <2>2. Agreement'  BY <1>1, <1>3, <2>1 DEF Agreement, At
  <2>3. CASE intent = None
    BY <1>1, <1>3, <2>3, <2>2 DEF Abstract, RS!rsVars
  <2>4. CASE intent # None
    <3>1. intent.report # None  BY <2>4, NoneIsNone, NamesAssumption, Typed
    <3>2. RS!Withdraw  BY <1>1, <1>3, <2>1, <2>4, <3>1 DEF RS!Withdraw
    <3> QED  BY <2>2, <3>2 DEF Abstract, RS!Next
  <2> QED  BY <2>3, <2>4
<1> QED  BY <1>2, <1>3 DEF Refuse, GiveUp

\* The file steps publish the promised report, and the commit seals it.
LEMMA AgreementSeal ==
  ASSUME TypeOK, Base, Agreement, Seal
  PROVE  Agreement' /\ Abstract
<1>s. \A s : At(s) /\ s # "examine" =>
        /\ tx \in Tx /\ intent \in Intent /\ intent # None /\ intent.tok = tx.tok
        /\ intent.temp \in Names /\ intent.temp # Output
        /\ intent.report # None
  BY Typed, NoneIsNone, NamesAssumption DEF At, Base
<1>t. tx # None => tx \in Tx  BY Typed
<1>f. files \in [Names -> Content] /\ Output \in Names
  BY NoneIsNone DEF TypeOK
<1> USE DEF At, rowVars, fileVars
<1>1. ASSUME Examine  PROVE Agreement' /\ Abstract
  <2>1. CASE (Sealable => Examined = "refuse") /\ Refuse
    <3>1. tx # None  BY <1>1 DEF Examine
    <3>2. ASSUME intent # None, tx.recovered
          PROVE  files[Output] = None
      <4>1. Sealable  BY <3>1, <3>2 DEF Agreement, Sealable
      <4>2. Examined = "refuse"  BY <2>1, <4>1
      <4>3. status = "running"  BY <3>2 DEF Agreement
      <4> QED  BY <3>2, <4>2, <4>3 DEF Examined, Exists, Matches, Agreement
    <3> QED  BY <2>1, <3>1, <3>2, AgreementRefuse
  <2>2. CASE /\ Sealable /\ Examined # "refuse" /\ GoOn(Examined)
             /\ UNCHANGED <<rowVars, fileVars, wk>>
    <3>1. /\ tx \in Tx /\ Sealable /\ Examined # "refuse"
          /\ tx' = [tx EXCEPT !.step = Examined]
          /\ UNCHANGED <<status, runToken, sealedAs, intent, files>>
      BY <1>1, <1>t, <2>2 DEF Examine, GoOn
    <3>2. /\ tx'.step = Examined /\ tx'.recovered = tx.recovered
          /\ tx'.tok = tx.tok
      BY <3>1 DEF Tx
    <3>3. /\ Examined \in {"write", "replace"} => files[Output] = None
          /\ Examined = "replace" => files[intent.temp] = intent.report
          /\ Examined = "commit" => files[Output] = intent.report
          /\ Examined \in {"write", "replace", "commit", "refuse"}
      BY DEF Examined, Exists, Matches
    <3>4. tx # None  BY <1>1 DEF Examine
    <3>5. Agreement'  BY <3>1, <3>2, <3>3, <3>4 DEF Agreement
    <3> QED  BY <3>1, <3>5 DEF Abstract, RS!rsVars
  <2> QED  BY <1>1, <2>1, <2>2 DEF Examine
<1>2. ASSUME CreateTemporary \/ WriteTemporary
      PROVE  Agreement' /\ Abstract
  <2>1. /\ tx \in Tx /\ tx # None /\ tx.step \in {"write", "writing"}
        /\ intent.temp \in Names /\ intent.temp # Output
    BY <1>2, <1>s DEF CreateTemporary, WriteTemporary
  <2>2. /\ files'[Output] = files[Output]
        /\ UNCHANGED <<status, runToken, sealedAs, intent>>
    BY <1>2, <1>f, <2>1 DEF CreateTemporary, WriteTemporary
  <2>3. /\ tx'.step \in {"writing", "replace"}
        /\ tx'.recovered = tx.recovered /\ tx'.tok = tx.tok
        /\ tx'.step = "replace" => files'[intent.temp] = intent.report
    BY <1>2, <1>f, <2>1 DEF CreateTemporary, WriteTemporary, GoOn, Tx
  <2>4. Agreement'  BY <2>1, <2>2, <2>3 DEF Agreement
  <2> QED  BY <2>2, <2>4 DEF Abstract, RS!rsVars
<1>3. ASSUME ReplaceReport  PROVE Agreement' /\ Abstract
  <2>1. /\ tx \in Tx /\ tx # None /\ tx.step = "replace"
        /\ intent # None /\ intent.report # None
        /\ intent.temp \in Names /\ intent.temp # Output
    BY <1>3, <1>s DEF ReplaceReport
  <2>2. /\ files'[Output] = intent.report /\ files[Output] = None
        /\ UNCHANGED <<status, runToken, sealedAs, intent>>
    BY <1>3, <1>f, <2>1 DEF ReplaceReport, Agreement
  <2>3. tx'.step = "sync" /\ tx'.recovered = tx.recovered /\ tx'.tok = tx.tok
    BY <1>3, <2>1 DEF ReplaceReport, GoOn, Tx
  <2>4. Agreement'  BY <2>1, <2>2, <2>3 DEF Agreement
  <2>5. RS!Publish  BY <2>1, <2>2 DEF RS!Publish
  <2> QED  BY <2>4, <2>5 DEF Abstract, RS!Next
<1>4. ASSUME SyncDirectory  PROVE Agreement' /\ Abstract
  <2>1. tx \in Tx /\ tx # None /\ tx.step = "sync"
    BY <1>4, <1>s DEF SyncDirectory
  <2>2. tx'.step = "verify" /\ tx'.recovered = tx.recovered /\ tx'.tok = tx.tok
    BY <1>4, <2>1 DEF SyncDirectory, GoOn, Tx
  <2> QED
    BY <1>4, <2>1, <2>2 DEF SyncDirectory, Agreement, Abstract, RS!rsVars
<1>5. ASSUME VerifyReport  PROVE Agreement' /\ Abstract
  <2>1. /\ tx \in Tx /\ tx # None /\ tx.step = "verify"
        /\ Matches(Output)
    BY <1>5, <1>s DEF VerifyReport, Agreement, Matches
  <2>2. tx'.step = "commit" /\ tx'.recovered = tx.recovered /\ tx'.tok = tx.tok
        /\ UNCHANGED <<status, runToken, sealedAs, intent, files>>
    BY <1>5, <2>1 DEF VerifyReport, GoOn, Tx
  <2> QED
    BY <2>1, <2>2 DEF Agreement, Abstract, RS!rsVars
<1>6. ASSUME Commit  PROVE Agreement' /\ Abstract
  <2>1. /\ tx # None /\ tx.step = "commit" /\ tx' = None
        /\ intent # None /\ intent.report # None /\ files' = files
        /\ files[Output] = intent.report
    BY <1>6, <1>s DEF Commit, EndTx, Agreement
  <2>2. CASE UNCHANGED rowVars
    BY <2>1, <2>2 DEF Agreement, Abstract, RS!rsVars
  <2>3. CASE status' = "complete" /\ runToken' = None
             /\ sealedAs' = intent.report /\ intent' = None
    <3>1. Agreement'  BY <2>1, <2>3 DEF Agreement
    <3>2. RS!Seal  BY <2>1, <2>3 DEF RS!Seal
    <3> QED  BY <3>1, <3>2 DEF Abstract, RS!Next
  <2> QED  BY <1>6, <2>2, <2>3 DEF Commit
<1> QED  BY <1>1, <1>2, <1>3, <1>4, <1>5, <1>6 DEF Seal

\* Errors and dying processes end a transaction and leave what is visible.
LEMMA AgreementFault ==
  ASSUME TypeOK, Base, Agreement, ~PowerMayFail, Fault
  PROVE  Agreement' /\ Abstract
<1>1. ASSUME IOError  PROVE Agreement' /\ Abstract
  <2>1. tx # None /\ tx' = None /\ UNCHANGED rowVars
    BY <1>1 DEF IOError, Defer, EndTx
  <2>2. files'[Output] = files[Output]
    <3>1. At("writing") => intent.temp # Output
      BY Typed, NoneIsNone DEF At, Base
    <3> QED  BY <1>1, <3>1, NoneIsNone DEF IOError, TypeOK
  <2> QED  BY <2>1, <2>2 DEF Agreement, At, Abstract, RS!rsVars, rowVars
<1>2. ASSUME NEW w \in Workers, Crash(w)  PROVE Agreement' /\ Abstract
  BY <1>2 DEF Crash, Agreement, At, Abstract, RS!rsVars, rowVars, fileVars
<1> QED  BY <1>1, <1>2 DEF Fault, PowerFailure

\* Every step that is not a power failure keeps the agreement.
LEMMA AgreementStep ==
  ASSUME TypeOK, Base, Agreement, ~PowerMayFail, [Next]_vars
  PROVE  Agreement' /\ Abstract
<1>1. CASE UNCHANGED vars
  BY <1>1 DEF Agreement, At, Abstract, RS!rsVars, vars, rowVars, fileVars
<1> QED  BY <1>1, AgreementCall, AgreementSeal, AgreementFault DEF Next

\* A complete mission has its report: whatever process died at whatever step,
\* the outputs directory holds exactly the bytes the ledger has sealed
\* (ReportPresent).  A power failure may undo a directory entry.
THEOREM ReportAlwaysPresent ==
  ASSUME ~PowerMayFail
  PROVE  Spec => []ReportPresent
<1>1. Agreement => ReportPresent  BY DEF Agreement, ReportPresent
<1>2. TypeOK /\ Base /\ Agreement /\ [Next]_vars => Agreement'
  BY AgreementStep
<1> QED  BY <1>1, <1>2, InitType, TypeStep, AgreementInit, PTL DEF Spec

\* The journal, the directory and the ledger together are the report of
\* ReportSeal: promised, visible whole, sealed as promised
\* (ImplementsReportSeal).
THEOREM FinalizationRefinesSeal ==
  ASSUME ~PowerMayFail
  PROVE  Spec => ImplementsReportSeal
<1>1. TypeOK /\ Base /\ Agreement /\ [Next]_vars =>
        Agreement' /\ [RS!Next]_(RS!rsVars)
  BY AgreementStep DEF Abstract
<1> QED
  BY <1>1, InitType, TypeStep, AgreementInit, PTL
  DEF Spec, ImplementsReportSeal, RS!Spec
=============================================================================
