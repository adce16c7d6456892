-------------------------- MODULE MultipartUpload --------------------------
(***************************************************************************)
(* The upload of a video in parts: the hook useMultipartUpload.ts, whose    *)
(* refs are shared by every run of startUpload and resumeUpload that still  *)
(* awaits an answer; the four endpoints of resource/service.py; R2, which   *)
(* takes an upload apart from the database; and the data fix of lifespan.py *)
(* that a worker's start applies.  Upload u has the video row u.  A teacher *)
(* who starts again takes the same file.                                    *)
(***************************************************************************)
EXTENDS Naturals, Sequences, FiniteSets

CONSTANTS MaxPart,       \* parts of the file
          Concurrency,   \* MAX_CONCURRENCY, 3 in the code
          MaxStart, MaxResume,   \* runs of startUpload, of resumeUpload (bounds)
          MaxFault,      \* lost requests and answers (bound)
          MaxRestart     \* starts of a worker (bound)

ASSUME UploadBounds == /\ {MaxPart, Concurrency} \subseteq Nat \ {0}
                       /\ {MaxStart, MaxResume, MaxFault, MaxRestart} \subseteq Nat

VARIABLES status, paused,    \* status, isPausedRef
          uploadId,          \* uploadIdRef and resourceIdRef; 0: null
          parts,             \* uploadedPartsRef
          ctl,               \* abortControllerRef: the run that made it; 0: null
          runs,              \* the runs that have not returned
          cancelling,        \* uploads whose DELETE is out
          video,             \* rows: [upload_status, deleted, notified]
          store,             \* R2: [open, parts, object]
          started, resumed, faults, restarts

refs == <<status, paused, uploadId, parts, ctl>>
server == <<video, store>>
vars == <<refs, runs, cancelling, server, started, resumed, faults, restarts>>

Part == 1 .. MaxPart
Upload == 1 .. MaxStart
Run == 1 .. MaxStart + MaxResume
NoRow == [upload_status |-> "none", deleted |-> FALSE, notified |-> 0]

Init == /\ status = "idle" /\ paused = FALSE /\ uploadId = 0 /\ parts = <<>> /\ ctl = 0
        /\ runs = {} /\ cancelling = {}
        /\ video = [u \in Upload |-> NoRow]
        /\ store = [u \in Upload |-> [open |-> FALSE, parts |-> {}, object |-> {}]]
        /\ started = 0 /\ resumed = 0 /\ faults = 0 /\ restarts = 0

Fault == faults < MaxFault /\ faults' = faults + 1
SeqSet(s) == {s[i] : i \in DOMAIN s}
Live(u) == u # 0 /\ video[u].upload_status # "none" /\ ~video[u].deleted
Lowest(k, S) == {p \in S : Cardinality({q \in S : q < p}) < k}
Ascending(S) == [i \in 1 .. Cardinality(S) |->
                   CHOOSE p \in S : Cardinality({q \in S : q < p}) = i - 1]

-----------------------------------------------------------------------------
(* uploadParts at the head of its loop, and what follows it: a run ends when *)
(* the upload is paused or was cancelled, else it presigns the next batch,   *)
(* and after the last one completes what uploadedPartsRef lists by then.     *)
Ends(r, id) == paused' \/ (r.todo = {} /\ id = 0)

Proceeds(r, id, done) ==
  IF r.todo # {}
  THEN [r EXCEPT !.st = "presigning", !.batch = Lowest(Concurrency, r.todo),
                 !.todo = @ \ Lowest(Concurrency, r.todo), !.got = {}, !.row = id]
  ELSE [r EXCEPT !.st = "completing", !.batch = {}, !.got = {}, !.sent = done,
                 !.up = IF r.resume THEN id ELSE @]

(* Mistaken form of Replace: the check of isPausedRef after the loop is       *)
(* dropped, so a run that left its loop goes on to complete.                 *)
Replace_NoExit(r, s, id, done) ==
  runs' = (runs \ {r}) \cup
    {IF paused' THEN [s EXCEPT !.st = "completing", !.batch = {}, !.got = {}, !.sent = done]
     ELSE Proceeds(s, id, done)}

Replace(r, s, id, done) ==
  runs' = (runs \ {r}) \cup (IF Ends(s, id) THEN {} ELSE {Proceeds(s, id, done)})

StatusAfter(r, id) ==
  IF ~Ends(r, id) /\ r.todo = {} /\ ~r.resume THEN "uploading" ELSE status

(* Mistaken form of Fails: the failure is not shown.                         *)
Fails_Silent(r) == /\ runs' = runs \ {r}
                   /\ UNCHANGED <<status, paused, uploadId, parts, ctl>>

(* A run that fails while the upload is paused returns without a word.       *)
Fails(r) == /\ runs' = runs \ {r}
            /\ status' = IF paused THEN status ELSE "error"
            /\ UNCHANGED <<paused, uploadId, parts, ctl>>

NewRun(resume, todo) ==
  [n |-> started + resumed + 1, resume |-> resume, up |-> IF resume THEN uploadId ELSE 0,
   st |-> "initiating", todo |-> todo, batch |-> {}, got |-> {}, row |-> 0,
   ctl |-> 0, sent |-> <<>>]

Start ==
  /\ status \notin {"uploading", "paused"} /\ started < MaxStart
  /\ started' = started + 1
  /\ status' = "uploading" /\ paused' = FALSE /\ uploadId' = 0 /\ parts' = <<>>
  /\ ctl' = started' + resumed
  /\ runs' = runs \cup {NewRun(FALSE, Part)}
  /\ UNCHANGED <<cancelling, server, resumed, faults, restarts>>

(* The row is flushed and R2 opens the upload before the answer.             *)
Initiated == CHOOSE u \in Upload : /\ video[u].upload_status = "none"
                                   /\ \A w \in Upload : w < u => video[w].upload_status # "none"

InitiateAnswered(r) ==
  /\ r \in runs /\ r.st = "initiating"
  /\ LET u == Initiated
     IN /\ video' = [video EXCEPT ![u].upload_status = "pending"]
        /\ store' = [store EXCEPT ![u].open = TRUE]
        /\ \/ /\ uploadId' = u
              /\ UNCHANGED <<paused, parts, ctl, faults>>
              /\ Replace(r, [r EXCEPT !.up = u], u, parts)
              /\ status' = StatusAfter(r, u)
           \/ Fault /\ Fails(r)              \* the answer is lost
  /\ UNCHANGED <<cancelling, started, resumed, restarts>>

InitiateFails(r) ==
  /\ r \in runs /\ r.st = "initiating" /\ Fault
  /\ Fails(r)
  /\ UNCHANGED <<cancelling, server, started, resumed, restarts>>

(* With the URLs every part of the batch is sent at once, under the abort    *)
(* controller of that moment.                                                *)
PresignAnswered(r) ==
  /\ r \in runs /\ r.st = "presigning"
  /\ Live(r.row)
  /\ runs' = (runs \ {r}) \cup
       (IF paused THEN {} ELSE {[r EXCEPT !.st = "putting", !.ctl = ctl]})
  /\ UNCHANGED <<refs, cancelling, server, started, resumed, faults, restarts>>

PresignFails(r) ==
  /\ r \in runs /\ r.st = "presigning"
  /\ IF Live(r.row) THEN Fault ELSE UNCHANGED faults
  /\ Fails(r)
  /\ UNCHANGED <<cancelling, server, started, resumed, restarts>>

(* R2 knows the upload under the key of its own video only.                  *)
Accepts(r) == r.row = r.up /\ store[r.up].open

PartPut(r, p) ==
  /\ r \in runs /\ r.st = "putting" /\ p \in r.batch \ r.got
  /\ Accepts(r)
  /\ store' = [store EXCEPT ![r.up].parts = @ \cup {p}]
  /\ LET s == [r EXCEPT !.got = @ \cup {p}]
         all == parts \o Ascending(r.batch)
     IN IF s.got = r.batch
        THEN /\ parts' = all
             /\ paused' = paused
             /\ Replace(r, s, uploadId, all)
             /\ status' = StatusAfter(s, uploadId)
        ELSE /\ runs' = (runs \ {r}) \cup {s}
             /\ UNCHANGED <<status, paused, parts>>
  /\ UNCHANGED <<uploadId, ctl, cancelling, video, started, resumed, faults, restarts>>

PutFails(r) ==
  /\ r \in runs /\ r.st = "putting"
  /\ IF Accepts(r) THEN Fault ELSE UNCHANGED faults
  /\ Fails(r)
  /\ UNCHANGED <<cancelling, server, started, resumed, restarts>>

(* R2 assembles the parts that are named, each once and each stored; after   *)
(* that the row is updated, the students notified, and the session committed.*)
Assembles(r) == /\ store[r.up].open
                /\ SeqSet(r.sent) \subseteq store[r.up].parts
                /\ Cardinality(SeqSet(r.sent)) = Len(r.sent)

(* Mistaken form of CompleteAssembles: the row is updated and the students   *)
(* are notified before R2 is asked.                                          *)
CompleteAssembles_NotifiesFirst(r) ==
  /\ r \in runs /\ r.st = "completing"
  /\ Live(r.up)
  /\ video' = [video EXCEPT ![r.up].notified = @ + 1]
  /\ runs' = IF Assembles(r) THEN (runs \ {r}) \cup {[r EXCEPT !.st = "assembled"]}
              ELSE runs \ {r}
  /\ store' = IF Assembles(r)
              THEN [store EXCEPT ![r.up].open = FALSE, ![r.up].object = SeqSet(r.sent)]
              ELSE store
  /\ UNCHANGED <<refs, cancelling, started, resumed, faults, restarts>>

CompleteAssembles(r) ==
  /\ r \in runs /\ r.st = "completing"
  /\ Live(r.up) /\ Assembles(r)
  /\ store' = [store EXCEPT ![r.up].open = FALSE, ![r.up].object = SeqSet(r.sent)]
  /\ runs' = (runs \ {r}) \cup {[r EXCEPT !.st = "assembled"]}
  /\ UNCHANGED <<refs, cancelling, video, started, resumed, faults, restarts>>

CompleteCommits(r) ==
  /\ r \in runs /\ r.st = "assembled"
  /\ video' = [video EXCEPT ![r.up].upload_status = "completed",
                            ![r.up].notified = @ + 1]
  /\ runs' = (runs \ {r}) \cup {[r EXCEPT !.st = "completed"]}
  /\ UNCHANGED <<refs, cancelling, store, started, resumed, faults, restarts>>

CompleteAnswered(r) ==
  /\ r \in runs /\ r.st = "completed"
  /\ runs' = runs \ {r}
  /\ status' = "success"
  /\ UNCHANGED <<paused, uploadId, parts, ctl, cancelling, server, started, resumed, faults,
                 restarts>>

CompleteFails(r) ==
  /\ r \in runs
  /\ \/ r.st = "completing" /\ ~(Live(r.up) /\ Assembles(r)) /\ UNCHANGED faults
     \/ r.st \in {"completing", "assembled", "completed"} /\ Fault
  /\ Fails(r)
  /\ UNCHANGED <<cancelling, server, started, resumed, restarts>>

-----------------------------------------------------------------------------
(* abort() ends the PUTs of the controller; requests to the backend go on.   *)
Aborted == {r \in runs : r.st = "putting" /\ r.ctl = ctl /\ ctl # 0}

Pause ==
  /\ status = "uploading"
  /\ paused' = TRUE /\ status' = "paused"
  /\ runs' = runs \ Aborted
  /\ UNCHANGED <<uploadId, parts, ctl, cancelling, server, started, resumed, faults, restarts>>

(* The parts that are not in uploadedPartsRef are sent again.                *)
Resume ==
  /\ status = "paused" /\ uploadId # 0 /\ resumed < MaxResume
  /\ resumed' = resumed + 1
  /\ paused' = FALSE /\ ctl' = started + resumed'
  /\ LET r == NewRun(TRUE, Part \ SeqSet(parts))
     IN runs' = runs \cup {Proceeds(r, uploadId, parts)}
  /\ status' = "uploading"
  /\ UNCHANGED <<uploadId, parts, cancelling, server, started, faults, restarts>>

(* Mistaken form of ResetState: "canceled" is shown after the reset.         *)
ResetState_Canceled == /\ status' = "canceled" /\ paused' = FALSE /\ uploadId' = 0
                       /\ parts' = <<>> /\ ctl' = 0

ResetState == /\ status' = "idle" /\ paused' = FALSE /\ uploadId' = 0
              /\ parts' = <<>> /\ ctl' = 0

Cancel ==
  /\ status \in {"uploading", "paused", "error"} /\ uploadId \notin cancelling
  /\ runs' = runs \ Aborted
  /\ IF uploadId # 0
     THEN /\ cancelling' = cancelling \cup {uploadId}
          /\ paused' = TRUE /\ UNCHANGED <<status, uploadId, parts, ctl>>
     ELSE ResetState /\ UNCHANGED cancelling
  /\ UNCHANGED <<server, started, resumed, faults, restarts>>

(* The backend aborts the upload in R2, and if that fails too soft-deletes   *)
(* the row; the hook resets itself after the answer, whatever it is.         *)
DeleteAnswered(u) ==
  /\ u \in cancelling
  /\ cancelling' = cancelling \ {u}
  /\ IF Live(u)
     THEN /\ video' = [video EXCEPT ![u].deleted = TRUE]
          /\ store' = [store EXCEPT ![u].open = FALSE]
     ELSE UNCHANGED server
  /\ ResetState
  /\ UNCHANGED <<runs, started, resumed, faults, restarts>>

DeleteLost(u) ==
  /\ u \in cancelling /\ Fault
  /\ cancelling' = cancelling \ {u}
  /\ ResetState
  /\ UNCHANGED <<runs, server, started, resumed, restarts>>

(* At a worker's start rows pending for five minutes become completed.       *)
DataFix(old) ==
  /\ restarts < MaxRestart /\ restarts' = restarts + 1
  /\ old # {} /\ \A u \in old : video[u].upload_status = "pending"
  /\ video' = [u \in Upload |->
                 IF u \in old THEN [video[u] EXCEPT !.upload_status = "completed"]
                 ELSE video[u]]
  /\ UNCHANGED <<refs, runs, cancelling, store, started, resumed, faults>>

Answer(r) == \/ InitiateAnswered(r) \/ InitiateFails(r)
             \/ PresignAnswered(r) \/ PresignFails(r)
             \/ \E p \in Part : PartPut(r, p)
             \/ PutFails(r)
             \/ CompleteAssembles(r) \/ CompleteCommits(r) \/ CompleteAnswered(r) \/ CompleteFails(r)

Next == \/ Start \/ Pause \/ Resume \/ Cancel
        \/ \E r \in runs : Answer(r)
        \/ \E u \in cancelling : DeleteAnswered(u) \/ DeleteLost(u)
        \/ \E old \in SUBSET Upload : DataFix(old)

Spec == Init /\ [][Next]_vars

(* Every request is answered or fails; the teacher need not do anything.     *)
Fairness == /\ WF_vars(\E r \in runs : Answer(r))
            /\ WF_vars(\E u \in cancelling : DeleteAnswered(u))

FairSpec == Spec /\ Fairness

-----------------------------------------------------------------------------
UploadRun ==
  [n : Run, resume : BOOLEAN, up : {0} \cup Upload, row : {0} \cup Upload, ctl : {0} \cup Run,
   st : {"initiating", "presigning", "putting", "completing", "assembled", "completed"},
   todo : SUBSET Part, batch : SUBSET Part, got : SUBSET Part, sent : Seq(Part)]

Video == [upload_status : {"none", "pending", "completed"}, deleted : BOOLEAN, notified : Nat]
Stored == [open : BOOLEAN, parts : SUBSET Part, object : SUBSET Part]

TypeOK ==
  /\ status \in {"idle", "uploading", "paused", "error", "success"}
  /\ paused \in BOOLEAN /\ uploadId \in {0} \cup Upload /\ ctl \in {0} \cup Run
  /\ parts \in Seq(Part) /\ cancelling \subseteq Upload
  /\ runs \subseteq UploadRun /\ \A r \in runs : r.got \subseteq r.batch
  /\ video \in [Upload -> Video] /\ store \in [Upload -> Stored]
  /\ started \in 0 .. MaxStart /\ resumed \in 0 .. MaxResume
  /\ faults \in 0 .. MaxFault /\ restarts \in 0 .. MaxRestart

(* R2 never assembles a part of the file: however paused, resumed and        *)
(* cancelled runs of one upload overlap and share the list of parts, what is *)
(* completed is the whole file.  (A second start may break it, see README.)  *)
WholeObject == \A u \in Upload : store[u].object \in {{}, Part}

(* Students are told of a video at most once, and only if it is stored.      *)
NotifiedOnce == \A u \in Upload : /\ video[u].notified <= 1
                                  /\ video[u].notified = 1 => store[u].object = Part

(* An upload the teacher leaves alone comes to an end.                       *)
Settles == status = "uploading" ~> status # "uploading"

-----------------------------------------------------------------------------
(* The inductive invariant, part by part.                                    *)

(* A run of startUpload waits for a row of its own.                          *)
Taken == {u \in Upload : video[u].upload_status # "none"}
Waiting == {r \in runs : r.st = "initiating"}
Counted == IsFiniteSet(Waiting) /\ Cardinality(Taken) + Cardinality(Waiting) <= started

(* Whoever is past the first request works on a row that was made.           *)
RowMade == /\ uploadId # 0 => uploadId \in Taken
           /\ \A r \in runs : /\ r.st # "initiating" => Taken # {}
                              /\ r.st = "initiating" => r.todo = Part

(* An upload is assembled once, and its row updated by that run only.        *)
Assembled(r) == /\ r.up \in Taken /\ ~store[r.up].open
                /\ r.st = "assembled" => video[r.up].notified = 0
OneAssembly ==
  /\ \A r \in runs : r.st \in {"assembled", "completed"} => Assembled(r)
  /\ \A r, q \in runs : r.st = "assembled" /\ q.st = "assembled" /\ r.up = q.up => r = q

(* Before R2 has assembled it nobody is told of an upload.                   *)
ToldOnce == \A u \in Upload : /\ video[u].notified <= 1
                              /\ u \notin Taken => ~store[u].open /\ video[u].notified = 0
                              /\ store[u].open => video[u].notified = 0

(* While the upload is known every run of it still knows of each part: it is *)
(* listed, or the run has it before itself.  A run that completes lists all. *)
CoversPart(r) ==
  /\ uploadId # 0 /\ r.st \in {"presigning", "putting"}
     => Part \subseteq SeqSet(parts) \cup r.todo \cup r.batch
  /\ r.st \in {"completing", "assembled", "completed"} => SeqSet(r.sent) = Part
  /\ r.st = "assembled" => store[r.up].object = Part
Covered == \A r \in runs : CoversPart(r)

IndInv == TypeOK /\ Counted /\ RowMade /\ OneAssembly /\ ToldOnce
WholeInv == IndInv /\ Covered /\ WholeObject /\ NotifiedOnce

=============================================================================
