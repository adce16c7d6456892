---------------------------- MODULE CourseBuilder ----------------------------
(***************************************************************************)
(* The course builder of the teacher: a wizard over one store that outlives  *)
(* the page (builder.store.ts), and the requests the store makes.  A visit   *)
(* opens the wizard for a new course or for an existing one.  The text of a  *)
(* form, a picture and a lesson are known by the visit that entered them,    *)
(* courses by number.                                                        *)
(***************************************************************************)
EXTENDS Naturals

CONSTANTS MaxVisit, MaxCourse, MaxCall,  \* visits, courses, calls of the store (bounds)
          MaxFault                       \* requests and answers that are lost (bound)

VARIABLES row,      \* row[c]: the course c on the server
          visit,    \* the number of the visit
          wizard,   \* "courses" (the list is on screen), "new", or "edit"
          param,    \* the courseId of the page's URL
          store,
          call,     \* call[k]: the k-th call of loadCourse, uploadThumbnail, createCourse, publishCourse
          mine,     \* mine[v]: the courses visit v was opened for or created (history only)
          faults

vars == <<row, visit, wizard, param, store, call, mine, faults>>

Course == 1 .. MaxCourse
NoCourse == 0
Visit == 0 .. MaxVisit   \* 0: nobody's (an empty field, the first content of a course)
Call == 1 .. MaxCall

DEFAULT_STATE == [courseId |-> NoCourse, text |-> 0, thumbnail |-> 0, lesson |-> 0,
                  isPublishing |-> FALSE, isCreating |-> FALSE, isUploading |-> FALSE]
NoCall == [op |-> "none", step |-> "none", visit |-> 0, course |-> NoCourse, new |-> FALSE,
           text |-> 0, thumbnail |-> 0, lesson |-> 0, from |-> "header"]
NoRow == [exists |-> FALSE, live |-> FALSE, text |-> 0, thumbnail |-> 0, lessons |-> {}]

Init == /\ row = [c \in Course |-> IF c = 1 THEN [NoRow EXCEPT !.exists = TRUE, !.live = TRUE]
                                   ELSE NoRow]
        /\ visit = 0 /\ wizard = "courses" /\ param = NoCourse
        /\ store = DEFAULT_STATE /\ call = [k \in Call |-> NoCall]
        /\ mine = [v \in Visit |-> {}] /\ faults = 0

Fault == faults < MaxFault /\ faults' = faults + 1
Free(k) == call[k].op = "none" /\ \A i \in 1 .. k - 1 : call[i].op # "none"
Starts(k, op, step, from) ==
  call' = [call EXCEPT ![k] = [NoCall EXCEPT !.op = op, !.step = step, !.visit = visit,
                               !.course = store'.courseId, !.text = store'.text,
                               !.thumbnail = store'.thumbnail, !.lesson = store'.lesson, !.from = from]]
At(k, op, step) == call[k].op = op /\ call[k].step = step
Goes(k, step) == call' = [call EXCEPT ![k].step = step]

-----------------------------------------------------------------------------
(* The wizard's effect: reset() for a new course, loadCourse(id) for one of  *)
(* the list, which resets as well and then asks for the course.              *)
OpenNew ==
  /\ wizard = "courses" /\ visit < MaxVisit /\ visit' = visit + 1
  /\ wizard' = "new" /\ param' = NoCourse /\ store' = DEFAULT_STATE
  /\ UNCHANGED <<row, call, mine, faults>>

OpenEdit(k, c) ==
  /\ wizard = "courses" /\ visit < MaxVisit /\ visit' = visit + 1
  /\ row[c].exists /\ Free(k)
  /\ wizard' = "edit" /\ param' = c /\ store' = DEFAULT_STATE
  /\ mine' = [mine EXCEPT ![visit'] = {c}]
  /\ call' = [call EXCEPT ![k] = [NoCall EXCEPT !.op = "load", !.step = "sent",
                                                !.visit = visit', !.course = c]]
  /\ UNCHANGED <<row, faults>>

Leave == /\ wizard # "courses" /\ wizard' = "courses" /\ param' = NoCourse
         /\ UNCHANGED <<row, visit, store, call, mine, faults>>

(* The answer fills the store of whatever visit is on by then.               *)
Loaded(k) ==
  /\ At(k, "load", "sent") /\ Goes(k, "done")
  /\ \/ store' = [store EXCEPT !.courseId = call[k].course, !.text = row[call[k].course].text,
                               !.thumbnail = 0]
        /\ UNCHANGED faults
     \/ Fault /\ UNCHANGED store
  /\ UNCHANGED <<row, visit, wizard, param, mine>>

-----------------------------------------------------------------------------
(* The form.                                                                 *)
Types == /\ wizard # "courses" /\ store.text # visit /\ store' = [store EXCEPT !.text = visit]
         /\ UNCHANGED <<row, visit, wizard, param, call, mine, faults>>

(* Lessons are staged until the course exists; one per visit will do.        *)
Stages == /\ wizard # "courses" /\ store.courseId = NoCourse
          /\ \E lesson \in {0, visit} \ {store.lesson} : store' = [store EXCEPT !.lesson = lesson]
          /\ UNCHANGED <<row, visit, wizard, param, call, mine, faults>>

(* A picture is uploaded at once if the course exists.                       *)
Picks(k) ==
  /\ wizard # "courses" /\ store.thumbnail # visit
  /\ store' = [store EXCEPT !.thumbnail = visit, !.isUploading = store.courseId # NoCourse]
  /\ IF store.courseId = NoCourse THEN UNCHANGED call
     ELSE Free(k) /\ Starts(k, "upload", "thumbnail", "header")
  /\ UNCHANGED <<row, visit, wizard, param, mine, faults>>

(* createCourse, the first step's button: it creates nothing.                *)
Continue(k) ==
  /\ wizard # "courses" /\ store.text # 0 /\ ~store.isCreating /\ ~store.isUploading
  /\ store.courseId # NoCourse /\ Free(k)
  /\ store' = [store EXCEPT !.isCreating = TRUE]
  /\ Starts(k, "create", "update", "header")
  /\ UNCHANGED <<row, visit, wizard, param, mine, faults>>

(* publishCourse, from the header or from the last step.                     *)
Publish(k, from) ==
  /\ wizard # "courses" /\ store.text # 0 /\ ~store.isPublishing /\ Free(k)
  /\ store' = [store EXCEPT !.isPublishing = TRUE]
  /\ Starts(k, "publish", IF store.courseId = NoCourse THEN "insert" ELSE "update", from)
  /\ UNCHANGED <<row, visit, wizard, param, mine, faults>>

-----------------------------------------------------------------------------
(* After an answer a call goes on with the first of its steps that has       *)
(* something to do: the picture, the publication of a new course, the staged *)
(* lesson.                                                                   *)
Steps == <<"thumbnail", "publish", "lessons", "done">>
HasToDo(r) == [thumbnail |-> r.thumbnail # 0, publish |-> r.op = "publish" /\ r.new,
               lessons |-> r.op = "publish" /\ r.lesson # 0, done |-> TRUE]
FirstStep(r, from) ==
  Steps[CHOOSE i \in from .. 4 : HasToDo(r)[Steps[i]] /\ \A j \in from .. i - 1 : ~HasToDo(r)[Steps[j]]]

(* The end of publishCourse puts its course in the store; the header then    *)
(* goes to the list, and the last step resets the store and goes there too,  *)
(* whatever page is on screen.                                               *)
Ended(r, st) == CASE r.op = "create" -> [st EXCEPT !.isCreating = FALSE]
                  [] r.op = "upload" -> st
                  [] r.op = "publish" /\ r.from = "preview" -> DEFAULT_STATE
                  [] r.op = "publish" /\ r.from = "header" ->
                       [st EXCEPT !.courseId = r.course, !.isPublishing = FALSE]
Resumes(k, r, from, st) ==
  LET step == FirstStep(r, from)
  IN /\ call' = [call EXCEPT ![k] = [r EXCEPT !.step = step]]
     /\ store' = IF step = "done" THEN Ended(r, st)
                 ELSE [st EXCEPT !.isUploading = @ \/ step = "thumbnail"]
     /\ IF step = "done" /\ r.op = "publish" THEN wizard' = "courses" /\ param' = NoCourse
        ELSE UNCHANGED <<wizard, param>>
     /\ UNCHANGED visit

(* The insert or update of a save that fails, or whose answer is lost, ends  *)
(* it; the first step does not look.                                         *)
Fails(k) == /\ Fault /\ Goes(k, "done") /\ store' = [store EXCEPT !.isPublishing = FALSE]
            /\ UNCHANGED <<visit, wizard, param>>
Lost(k) == /\ call[k].op = "publish" /\ call[k].step \in {"insert", "update"} /\ Fails(k)
           /\ UNCHANGED <<row, mine>>

(* publishCourse sends the picture of the store by now, else that of the     *)
(* click.                                                                    *)
Picture == [k \in Call |-> IF call[k].op = "publish" /\ store.thumbnail # 0 THEN store.thumbnail
                           ELSE call[k].thumbnail]
Inserted(k) ==
  /\ At(k, "publish", "insert")
  /\ \E c \in Course :
       /\ ~row[c].exists /\ \A d \in 1 .. c - 1 : row[d].exists
       /\ row' = [row EXCEPT ![c] = [NoRow EXCEPT !.exists = TRUE, !.text = call[k].text]]
       /\ mine' = [mine EXCEPT ![call[k].visit] = @ \cup {c}]
       /\ \/ Fails(k)
          \/ /\ Resumes(k, [call[k] EXCEPT !.course = c, !.new = TRUE, !.thumbnail = Picture[k]], 1, store)
             /\ UNCHANGED faults

Updated(k) ==
  /\ call[k].step = "update"
  /\ \/ row' = [row EXCEPT ![call[k].course].text = call[k].text] /\ UNCHANGED faults
     \/ call[k].op = "create" /\ Fault /\ UNCHANGED row
  /\ Resumes(k, [call[k] EXCEPT !.thumbnail = Picture[k]], 1, store)
  /\ UNCHANGED mine

(* uploadThumbnail fails without a word, and forgets the picture of the      *)
(* store, whichever that is, when it succeeds.                               *)
Uploaded(k) ==
  /\ call[k].step = "thumbnail"
  /\ \/ /\ row' = [row EXCEPT ![call[k].course].thumbnail = call[k].thumbnail]
        /\ Resumes(k, call[k], 2, [store EXCEPT !.thumbnail = 0, !.isUploading = FALSE])
        /\ UNCHANGED faults
     \/ Fault /\ UNCHANGED row /\ Resumes(k, call[k], 2, [store EXCEPT !.isUploading = FALSE])
  /\ UNCHANGED mine

(* A publication or a lesson that fails is only logged.                      *)
Published(k) ==
  /\ call[k].step = "publish" /\ Resumes(k, call[k], 3, store)
  /\ \/ row' = [row EXCEPT ![call[k].course].live = TRUE] /\ UNCHANGED faults
     \/ Fault /\ UNCHANGED row
  /\ UNCHANGED mine

Attached(k) ==
  /\ call[k].step = "lessons" /\ Resumes(k, call[k], 4, store)
  /\ \/ row' = [row EXCEPT ![call[k].course].lessons = @ \cup {call[k].lesson}] /\ UNCHANGED faults
     \/ Fault /\ UNCHANGED row
  /\ UNCHANGED mine

Next == \/ OpenNew \/ Leave \/ Types \/ Stages
        \/ \E k \in Call : \/ Loaded(k) \/ Picks(k) \/ Continue(k) \/ Lost(k) \/ Inserted(k)
                           \/ Updated(k) \/ Uploaded(k) \/ Published(k) \/ Attached(k)
                           \/ \E c \in Course : OpenEdit(k, c)
                           \/ \E from \in {"header", "preview"} : Publish(k, from)

Spec == Init /\ [][Next]_vars

-----------------------------------------------------------------------------
TypeOK ==
  /\ row \in [Course -> [exists : BOOLEAN, live : BOOLEAN, text : Visit, thumbnail : Visit,
                         lessons : SUBSET Visit]]
  /\ visit \in Visit /\ wizard \in {"courses", "new", "edit"} /\ param \in {NoCourse} \cup Course
  /\ store \in [courseId : {NoCourse} \cup Course, text : Visit, thumbnail : Visit, lesson : Visit,
                isPublishing : BOOLEAN, isCreating : BOOLEAN, isUploading : BOOLEAN]
  /\ call \in [Call -> [op : {"none", "load", "upload", "create", "publish"},
                        step : {"none", "sent", "insert", "update", "thumbnail", "publish", "lessons", "done"},
                        visit : Visit, course : {NoCourse} \cup Course, new : BOOLEAN,
                        text : Visit, thumbnail : Visit, lesson : Visit, from : {"header", "preview"}]]
  /\ mine \in [Visit -> SUBSET Course] /\ faults \in 0 .. MaxFault

(* What the comments of loadCourse and of the wizard say: nothing of an      *)
(* earlier editing session gets into this one.  The form on screen is that   *)
(* of a new course, of the course the visit opened, or of one it created.    *)
NothingBleeds == wizard # "courses" => store.courseId \in {NoCourse} \cup mine[visit]
=============================================================================
