------------------------------ MODULE CertFlow ------------------------------
(***************************************************************************)
(* How the kubelet API comes by its serving certificate: KubeApi.Run tries *)
(* HTTPS with the files on disk; when one is missing PerformCertificateFlow*)
(* makes a private key, asks the cluster to sign it and stores what comes  *)
(* back; then Run tries once more.  Every other failure ends the process,  *)
(* and systemd starts it again.                                            *)
(*                                                                         *)
(* A private key is a member of Keys; a certificate and a signing request  *)
(* are the key they were made for.  A file is written in place: between    *)
(* the moment it is opened and the moment it is written it is Torn, and a  *)
(* crash in between leaves it so.  Whether two files belong together is    *)
(* all that is asked of their content.                                     *)
(***************************************************************************)
EXTENDS Naturals

CONSTANTS
  Keys, \* private keys openssl may generate, never the same one twice
  None, \* no file, no request
  Torn  \* a file that was opened and not written

Phases == {"pending", "approved", "issued"}
Csrs == [key : Keys, phase : Phases]

ASSUME KeysAssumption ==
  /\ None \notin Keys \union Csrs
  /\ Torn \notin Keys
  /\ None # Torn

VARIABLES
  pc,      \* where KubeApi.Run is
  keyFile, \* kubelet-server.key
  crtFile, \* kubelet-server.crt
  csr,     \* the CertificateSigningRequest kube-pet-node.<node> in the API
  seen,    \* the local copy of it
  made,    \* keys generated so far
  wiped    \* history: the cache directory was cleared at some time

vars == <<pc, keyFile, crtFile, csr, seen, made, wiped>>
files == <<keyFile, crtFile, made, wiped>>

\* "down" is a process ended from outside or by a failing call, "exited" one
\* the code ended by itself because of what it found.
Ended == {"down", "exited"}
FlowSteps == {"ensurekey", "keygen", "getcsr", "request", "create", "poll",
              "write"}

TypeOK ==
  /\ pc \in Ended \union {"serve", "serving", "again"} \union FlowSteps
  /\ keyFile \in Keys \union {None, Torn}
  /\ crtFile \in Keys \union {None, Torn}
  /\ csr \in Csrs \union {None}
  /\ seen \in Csrs \union {None}
  /\ made \subseteq Keys
  /\ wiped \in BOOLEAN

\* A node that never ran.
Init ==
  /\ pc = "down"
  /\ keyFile = None
  /\ crtFile = None
  /\ csr = None
  /\ seen = None
  /\ made = {}
  /\ wiped = FALSE

-----------------------------------------------------------------------------
(* KubeApi.Run *)

\* NewKubeApi and the start of Run, after systemd started the process.
Start ==
  /\ pc \in Ended
  /\ pc' = "serve"
  /\ seen' = None
  /\ UNCHANGED <<files, csr>>

\* tls.LoadX509KeyPair: both files are read and must belong together.
Missing == crtFile = None \/ keyFile = None
Paired == crtFile \in Keys /\ crtFile = keyFile

\* Mutant of ServeTLS: a missing file is as fatal as any other failure.
ServeTLS_MissingIsFatal ==
  /\ pc = "serve"
  /\ pc' = IF Paired THEN "serving" ELSE "exited"
  /\ UNCHANGED <<files, csr, seen>>

\* The first ServeTLS: a missing file starts the certificate flow, files that do
\* not pair end the process.
ServeTLS ==
  /\ pc = "serve"
  /\ pc' = IF Missing THEN "ensurekey" ELSE IF Paired THEN "serving" ELSE "exited"
  /\ UNCHANGED <<files, csr, seen>>

\* The second ServeTLS fails hard whatever the reason.
ServeTLSAgain ==
  /\ pc = "again"
  /\ pc' = IF Paired THEN "serving" ELSE "exited"
  /\ UNCHANGED <<files, csr, seen>>

-----------------------------------------------------------------------------
(* PerformCertificateFlow *)

\* Mutant of EnsurePrivateKeyExists: the key is generated on every run.
EnsurePrivateKeyExists_NoStat ==
  /\ pc = "ensurekey"
  /\ Keys \ made # {}
  /\ keyFile' = Torn
  /\ pc' = "keygen"
  /\ UNCHANGED <<crtFile, csr, seen, made, wiped>>

\* A key file that exists is kept, whatever is in it; otherwise openssl opens
\* the file and starts to search for primes.
EnsurePrivateKeyExists ==
  /\ pc = "ensurekey"
  /\ \/ /\ keyFile # None
        /\ pc' = "getcsr"
        /\ UNCHANGED keyFile
     \/ /\ keyFile = None
        /\ keyFile' = Torn
        /\ pc' = "keygen"
  /\ UNCHANGED <<crtFile, csr, seen, made, wiped>>

\* openssl genrsa writes the key it found.
Keygen ==
  /\ pc = "keygen"
  /\ \E k \in Keys \ made :
       /\ keyFile' = k
       /\ made' = made \union {k}
  /\ pc' = "getcsr"
  /\ UNCHANGED <<crtFile, csr, seen, wiped>>

\* The request is looked up by the node's name; what is found is taken.
GetCsr ==
  /\ pc = "getcsr"
  /\ seen' = csr
  /\ pc' = IF csr = None THEN "request" ELSE "poll"
  /\ UNCHANGED <<files, csr>>

\* openssl req fails on a key file it cannot read.
GenerateCertRequest ==
  /\ pc = "request"
  /\ pc' = IF keyFile \in Keys THEN "create" ELSE "exited"
  /\ UNCHANGED <<files, csr, seen>>

Requested == [key |-> keyFile, phase |-> "pending"]

CreateCsr ==
  /\ pc = "create"
  /\ csr' = Requested
  /\ seen' = Requested
  /\ pc' = "poll"
  /\ UNCHANGED files

\* The request is made but its answer is lost: the flow returns the error.
CreateCsrLost ==
  /\ pc = "create"
  /\ csr' = Requested
  /\ pc' = "down"
  /\ UNCHANGED <<files, seen>>

\* Mutant of PollCsr: the answer of Get goes to a variable of the loop's own.
PollCsr_Shadowed ==
  /\ pc = "poll"
  /\ seen.phase # "issued"
  /\ seen' = seen
  /\ pc' = IF csr = None THEN "exited" ELSE "poll"
  /\ UNCHANGED <<files, csr>>

\* One turn of the loop that waits for the certificate.  A request that is gone
\* ends the process.
PollCsr ==
  /\ pc = "poll"
  /\ seen.phase # "issued"
  /\ IF csr = None
       THEN pc' = "exited" /\ seen' = seen
       ELSE pc' = "poll" /\ seen' = csr
  /\ UNCHANGED <<files, csr>>

\* StoreFile: os.Create empties the file ...
StoreOpen ==
  /\ pc = "poll"
  /\ seen.phase = "issued"
  /\ crtFile' = Torn
  /\ pc' = "write"
  /\ UNCHANGED <<keyFile, csr, seen, made, wiped>>

\* ... and Write fills it.
StoreWrite ==
  /\ pc = "write"
  /\ crtFile' = seen.key
  /\ pc' = "again"
  /\ UNCHANGED <<keyFile, csr, seen, made, wiped>>

\* A call fails (openssl, the API, the disk): the flow returns the error and Run
\* ends the process; what was opened stays as it is.
FlowFault ==
  /\ pc \in FlowSteps
  /\ pc' = "down"
  /\ UNCHANGED <<files, csr, seen>>

-----------------------------------------------------------------------------
(* Around the process *)

\* node-controller approves a pending request of the node's own.
ApproveCsr ==
  /\ csr # None
  /\ csr.phase = "pending"
  /\ csr' = [csr EXCEPT !.phase = "approved"]
  /\ UNCHANGED <<files, pc, seen>>

\* The cluster's signer adds the certificate.
IssueCertificate ==
  /\ csr # None
  /\ csr.phase = "approved"
  /\ csr' = [csr EXCEPT !.phase = "issued"]
  /\ UNCHANGED <<files, pc, seen>>

\* The cluster's cleaner removes requests that are old, in whatever phase; so
\* does the deletion of the Node that owns it.
CsrCleaned ==
  /\ csr # None
  /\ csr' = None
  /\ UNCHANGED <<files, pc, seen>>

Crash ==
  /\ pc \notin Ended
  /\ pc' = "down"
  /\ UNCHANGED <<files, csr, seen>>

\* The cache directory is cleared, or the machine installed anew, between two
\* runs.  (Bounded by the keys left.)
Wipe ==
  /\ pc \in Ended
  /\ made # Keys
  /\ keyFile' = None
  /\ crtFile' = None
  /\ wiped' = TRUE
  /\ UNCHANGED <<pc, csr, seen, made>>

RunSteps ==
  \/ Start
  \/ ServeTLS
  \/ ServeTLSAgain
  \/ EnsurePrivateKeyExists
  \/ Keygen
  \/ GetCsr
  \/ GenerateCertRequest
  \/ CreateCsr
  \/ PollCsr
  \/ StoreOpen
  \/ StoreWrite

Interruptions == CreateCsrLost \/ FlowFault \/ CsrCleaned \/ Crash \/ Wipe

Next == RunSteps \/ ApproveCsr \/ IssueCertificate \/ Interruptions

Spec == Init /\ [][Next]_vars

\* systemd restarts the process and the process runs on; the cluster approves
\* and signs.  Nothing is assumed of interruptions.
FairSpec ==
  /\ Spec
  /\ WF_vars(RunSteps)
  /\ WF_vars(ApproveCsr)
  /\ WF_vars(IssueCertificate)

-----------------------------------------------------------------------------
(* Properties *)

\* However often the flow was cut off and run again, the certificate on disk is
\* one for the key on disk, unless the files were removed by hand: the key is
\* made once, and the request found under the node's name is the one made for it.
CertMatchesKey ==
  ~wiped /\ crtFile \in Keys => keyFile = crtFile

\* Files nobody removed make Run give up only if a crash or a failed write left
\* one of them truncated, or if the request was removed from the API while the
\* node was waiting for it.
GivesUpForCause ==
  [][pc' = "exited" /\ pc # "exited" /\ ~wiped =>
       keyFile = Torn \/ crtFile = Torn \/ (pc = "poll" /\ csr = None)]_vars

\* What no later run repairs: a truncated key is kept as if it were one, a
\* truncated certificate is no missing file, and after the files were removed
\* the old request still stands under the node's name, so that its certificate
\* is stored next to a new key.
Unrepairable ==
  \/ keyFile = Torn
  \/ crtFile = Torn
  \/ wiped /\ crtFile \in Keys /\ keyFile # crtFile
  \/ wiped /\ csr # None /\ csr.key # keyFile

\* Once calls stop failing, the process stops crashing and requests stop being
\* removed, the kubelet API is served, unless the files are in a state no run
\* repairs.
ComesToServe ==
  []<><<Interruptions>>_vars \/ <>[](pc = "serving" \/ Unrepairable)

-----------------------------------------------------------------------------
(* The inductive invariant behind CertMatchesKey *)

\* The request in the API and the copy the flow works on are for the key on disk.
RequestMatchesKey ==
  ~wiped =>
    /\ csr # None => csr.key = keyFile
    /\ seen # None => seen.key = keyFile

StepsConsistent ==
  /\ pc \in {"poll", "write"} => seen # None
  /\ pc \in {"getcsr", "request"} => keyFile # None
  /\ pc = "create" => keyFile \in Keys
  /\ pc = "keygen" => keyFile = Torn
  /\ pc = "again" => crtFile \in Keys
  /\ pc \in {"serve", "ensurekey", "keygen", "getcsr", "request", "create"} =>
       seen = None

KeyOnlyWhileUsed ==
  ~wiped /\ keyFile \notin Keys => csr = None /\ seen = None /\ crtFile = None

CertInv ==
  /\ TypeOK
  /\ CertMatchesKey
  /\ RequestMatchesKey
  /\ StepsConsistent
  /\ KeyOnlyWhileUsed
=============================================================================
