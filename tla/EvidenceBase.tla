---------------------------- MODULE EvidenceBase ----------------------------
(***************************************************************************)
(* What the knowledge index promises the jobs that quote it, without       *)
(* digests, audits, locks or files that are read one by one.  What it      *)
(* shows of a file is a content the file has had.  A refresh replaces all  *)
(* it shows by one state the files were in together while the refresh was  *)
(* under way.  A job is admitted only if, at some moment of its admission, *)
(* everything shown was what the files held, and it keeps the quotations   *)
(* it was admitted with.  KnowledgeIndex implements this module (its EB    *)
(* instance).                                                              *)
(***************************************************************************)
EXTENDS Integers, Nothing

CONSTANTS Sources,  \* files
          Clients   \* those who refresh the base or have jobs admitted

VARIABLES files,    \* the content of each file, the n-th being n
          base,     \* the content shown of each file
          since,    \* per client: all states of the files since it began, {} at rest
          job       \* per client: what its job quotes of each file, None without a job

vars == <<files, base, since, job>>

Unseen == -1

Init == /\ files = [s \in Sources |-> 0]
        /\ base = [s \in Sources |-> Unseen]
        /\ since = [c \in Clients |-> {}]
        /\ job = [c \in Clients |-> None]

Known == {s \in Sources : base[s] # Unseen}

Only(known, content) == [s \in Sources |-> IF s \in known THEN content[s] ELSE Unseen]

Edit(s) ==
  /\ files' = [files EXCEPT ![s] = @ + 1]
  /\ since' = [c \in Clients |-> IF since[c] = {} THEN {} ELSE since[c] \cup {files'}]
  /\ UNCHANGED <<base, job>>

Begin(c) ==
  /\ since[c] = {} /\ since' = [since EXCEPT ![c] = {files}]
  /\ UNCHANGED <<files, base, job>>

Add(s, content) ==
  /\ base' = [base EXCEPT ![s] = content]
  /\ UNCHANGED <<files, since, job>>

Refresh(c) ==
  /\ \E moment \in since[c] : base' = Only(Known, moment)
  /\ since' = [since EXCEPT ![c] = {}]
  /\ UNCHANGED <<files, job>>

Admit(c, quoted) ==
  /\ job[c] = None /\ quoted \subseteq Known
  /\ \E moment \in since[c] : base = Only(Known, moment)
  /\ job' = [job EXCEPT ![c] = Only(quoted, base)]
  /\ since' = [since EXCEPT ![c] = {}]
  /\ UNCHANGED <<files, base>>

End(c) ==
  /\ since' = [since EXCEPT ![c] = {}]
  /\ job' = [job EXCEPT ![c] = None]
  /\ UNCHANGED <<files, base>>

Next ==
  \/ \E s \in Sources : Edit(s) \/ \E content \in 0..files[s] : Add(s, content)
  \/ \E c \in Clients : \/ Begin(c) \/ Refresh(c) \/ End(c)
                        \/ \E quoted \in SUBSET Sources : Admit(c, quoted)

Spec == Init /\ [][Next]_vars
=============================================================================
