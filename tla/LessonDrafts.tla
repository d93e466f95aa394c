----------------------------- MODULE LessonDrafts -----------------------------
(***************************************************************************)
(* The Fundamentals curriculum of a subject: its lessons, the private      *)
(* draft each may have, and the directors whose commands overlap.          *)
(*                                                                         *)
(* A command is one transaction, but it locks rows one statement after the *)
(* other, and not all commands in the same order: a publication locks the  *)
(* lesson and then the curriculum, the start of a draft the curriculum and *)
(* then the lesson, an archive the lesson and then all active ones.  Every *)
(* row a command looks at or changes is locked by its last statement, so   *)
(* its effect is one step, at the commit.                                  *)
(*                                                                         *)
(* A command is sent from a page that was loaded earlier.  Version numbers *)
(* are abstracted to what they are compared for: whether the row a page    *)
(* shows still has that version (fresh), and whether a lesson still has    *)
(* the version its draft was started from (based).  A draft's lock on its  *)
(* own row always comes with its lesson's and is taken for it.             *)
(***************************************************************************)
EXTENDS Naturals, Sequences, FiniteSets

CONSTANTS
    Lessons,
    Materials,     \* links and files that may be attached
    Directors,     \* commands that may be under way at the same time
    Curriculum,    \* the row of msi_v2.supplemental_curricula
    None

LessonDraftsAssumption ==
    Curriculum \notin Lessons /\ None \notin Lessons /\ IsFiniteSet(Directors)

VARIABLES
    status,        \* of the lesson, "absent" before it is inserted
    written,       \* history: the lesson has content somebody published or created
    drafting,      \* the lesson has a revision in state draft
    based,         \* base_item_version of the draft is the lesson's version
    rewritten,     \* history: the lesson was changed since the draft was started
    placed,        \* materials of the published revision
    known,         \* history: those of them the draft was started with
    staged,        \* materials of the draft
    request,       \* what each director has under way
    fresh,         \* the directors whose expected version is still the row's
    missed,        \* history: those whose page shows a text replaced since
    locks          \* the director who holds each row, or None

lessonVars == <<status, written, drafting, based, rewritten, placed, known, staged>>
vars == <<lessonVars, request, fresh, missed, locks>>

OnLesson == {"edit", "archive", "restore", "add"}
OnDraft == {"save", "publish", "abandon", "attach", "detach"}
OnList == {"start", "create", "draft", "reorder"}
Idle == [doing |-> "nothing", lesson |-> None, stage |-> 0,
         shows |-> {}, material |-> {}, list |-> {}]
Rows == Lessons \cup {Curriculum}

TypeOK ==
    /\ status \in [Lessons -> {"absent", "draft", "active", "archived"}]
    /\ written \in [Lessons -> BOOLEAN] /\ drafting \in [Lessons -> BOOLEAN]
    /\ based \in [Lessons -> BOOLEAN] /\ rewritten \in [Lessons -> BOOLEAN]
    /\ placed \in [Lessons -> SUBSET Materials] /\ known \in [Lessons -> SUBSET Materials]
    /\ staged \in [Lessons -> SUBSET Materials]
    /\ request \in [Directors -> [doing : {"nothing"} \cup OnLesson \cup OnDraft \cup OnList,
                                  lesson : Lessons \cup {None}, stage : 0..4,
                                  shows : SUBSET Materials, material : SUBSET Materials,
                                  list : SUBSET Lessons]]
    /\ fresh \subseteq Directors /\ missed \subseteq Directors
    /\ locks \in [Rows -> Directors \cup {None}]
    \* A draft lesson has its draft, and a lesson waits for nothing it does not have.
    /\ \A l \in Lessons : /\ status[l] = "draft" => drafting[l] /\ ~written[l]
                          /\ drafting[l] => status[l] # "absent"

Init ==
    /\ status \in [Lessons -> {"absent", "active"}]
    /\ written = [l \in Lessons |-> status[l] = "active"]
    /\ drafting = [l \in Lessons |-> FALSE] /\ based = [l \in Lessons |-> FALSE]
    /\ rewritten = [l \in Lessons |-> FALSE]
    /\ placed = [l \in Lessons |-> {}] /\ known = placed /\ staged = placed
    /\ request = [d \in Directors |-> Idle]
    /\ fresh = {} /\ missed = {}
    /\ locks = [r \in Rows |-> None]

Active == {l \in Lessons : status[l] = "active"}

-----------------------------------------------------------------------------
(* Locks. *)

\* The rows each statement of a command locks, in its order.
Order(d) ==
    LET l == request[d].lesson
    IN CASE request[d].doing = "start" -> <<{Curriculum}, {l}>>
         [] request[d].doing \in {"create", "draft"} -> <<{Curriculum}>>
         [] request[d].doing = "reorder" -> <<{Curriculum}, Active>>
         [] request[d].doing \in {"publish", "edit", "add"} -> <<{l}, {Curriculum}>>
         [] request[d].doing \in {"archive", "restore"} -> <<{l}, Active \cup {l}, {Curriculum}>>
         [] OTHER -> <<{l}>>

Waits(d) == request[d] # Idle /\ request[d].stage < Len(Order(d))
Wants(d) == IF Waits(d) THEN Order(d)[request[d].stage + 1] ELSE {}
Blockers(d) == {locks[r] : r \in Wants(d)} \ {d, None}

Lock(d) ==
    /\ Waits(d) /\ Blockers(d) = {}
    /\ locks' = [r \in Rows |-> IF r \in Wants(d) THEN d ELSE locks[r]]
    /\ request' = [request EXCEPT ![d].stage = @ + 1]
    /\ UNCHANGED <<lessonVars, fresh, missed>>

Ready(d, doing) == request[d].doing = doing /\ ~Waits(d)
Ends(d) ==
    /\ request' = [request EXCEPT ![d] = Idle]
    /\ locks' = [r \in Rows |-> IF locks[r] = d THEN None ELSE locks[r]]
RefuseKeepsLocks(d) ==
    /\ request' = [request EXCEPT ![d] = Idle]
    /\ fresh' = fresh \ {d} /\ missed' = missed \ {d} /\ UNCHANGED <<locks, lessonVars>>
Refuse(d) == Ends(d) /\ fresh' = fresh \ {d} /\ missed' = missed \ {d} /\ UNCHANGED lessonVars

\* PostgreSQL aborts one of the transactions that wait for each other.
Deadlocked(d) ==
    \A waited \in SUBSET Directors :
        /\ Blockers(d) \subseteq waited
        /\ \A e \in waited : Blockers(e) \subseteq waited
        => d \in waited
DeadlockAborts(d) == Deadlocked(d) /\ Refuse(d)

-----------------------------------------------------------------------------
(* A director opens a page and sends a command. *)

Sends(d, doing, l, material) ==
    /\ request[d] = Idle
    /\ request' = [request EXCEPT ![d] =
          [doing |-> doing, lesson |-> l, stage |-> 0, material |-> material,
           shows |-> IF doing \in OnDraft THEN staged[l] ELSE {},
           list |-> IF doing = "reorder" THEN Active ELSE {}]]
    /\ fresh' = fresh \cup {d}
    /\ UNCHANGED <<lessonVars, missed, locks>>

Send(d) ==
    \/ \E l \in Lessons :
          \/ status[l] = "active" /\ \E doing \in {"edit", "archive", "start"} : Sends(d, doing, l, {})
          \/ status[l] = "archived" /\ Sends(d, "restore", l, {})
          \/ drafting[l] /\ \E doing \in {"save", "publish", "abandon"} : Sends(d, doing, l, {})
          \/ \E m \in Materials :
                \/ status[l] = "active" /\ Sends(d, "add", l, {m})
                \/ drafting[l] /\ m \notin staged[l] /\ Sends(d, "attach", l, {m})
                \/ drafting[l] /\ m \in staged[l] /\ Sends(d, "detach", l, {m})
          \/ status[l] = "absent" /\ \E doing \in {"create", "draft"} : Sends(d, doing, l, {})
    \/ Active # {} /\ Sends(d, "reorder", None, {})

\* The pages that expect a version of a row which has been advanced, and those whose
\* text has been replaced.
Expects(d, kinds, ls) == request[d].doing \in kinds /\ request[d].lesson \in ls
Bump(d, lessonRows, draftRows, listToo) ==
    fresh' = {e \in fresh \ {d} : /\ ~Expects(e, OnLesson, lessonRows)
                                  /\ ~Expects(e, {"save", "publish"}, draftRows)
                                  /\ ~(listToo /\ request[e].doing = "reorder")}
Replace(d, kinds, l) == missed' = (missed \ {d}) \cup {e \in Directors \ {d} : Expects(e, kinds, {l})}
Keep(d) == missed' = missed \ {d}

-----------------------------------------------------------------------------
(* The commands, when the last of their rows is locked. *)

\* create_fundamentals_item shows the lesson at once; a new draft is an item of its own
\* that nobody else sees.
Create(d) ==
    LET l == request[d].lesson IN
    /\ Ready(d, "create")
    /\ IF status[l] # "absent" THEN Refuse(d)
       ELSE /\ status' = [status EXCEPT ![l] = "active"]
            /\ written' = [written EXCEPT ![l] = TRUE]
            /\ Ends(d) /\ Bump(d, {}, {}, TRUE) /\ Keep(d)
            /\ UNCHANGED <<drafting, based, rewritten, placed, known, staged>>

NewDraft(d) ==
    LET l == request[d].lesson IN
    /\ Ready(d, "draft")
    /\ IF status[l] # "absent" THEN Refuse(d)
       ELSE /\ status' = [status EXCEPT ![l] = "draft"]
            /\ drafting' = [drafting EXCEPT ![l] = TRUE]
            /\ based' = [based EXCEPT ![l] = TRUE]
            /\ rewritten' = [rewritten EXCEPT ![l] = FALSE]
            /\ Ends(d) /\ Bump(d, {}, {}, FALSE) /\ Keep(d)
            /\ UNCHANGED <<written, placed, known, staged>>

\* start_fundamentals_draft: an open draft is returned as it is, otherwise the lesson's
\* text and its published placements are copied.
Start(d) ==
    LET l == request[d].lesson IN
    /\ Ready(d, "start")
    /\ IF status[l] # "active" \/ drafting[l] THEN Refuse(d)
       ELSE /\ drafting' = [drafting EXCEPT ![l] = TRUE]
            /\ based' = [based EXCEPT ![l] = TRUE]
            /\ rewritten' = [rewritten EXCEPT ![l] = FALSE]
            /\ staged' = [staged EXCEPT ![l] = placed[l]]
            /\ known' = [known EXCEPT ![l] = placed[l]]
            /\ Ends(d) /\ Bump(d, {}, {}, FALSE) /\ Keep(d)
            /\ UNCHANGED <<status, written, placed>>

\* update_draft: the version on the page is the draft's, and the materials it refers to
\* are still attached.
Saveable(d) ==
    LET l == request[d].lesson IN drafting[l] /\ d \in fresh /\ request[d].shows \subseteq staged[l]

\* update_fundamentals_draft: sync_asset_placements archives the materials the page
\* does not show.
Save(d) ==
    LET l == request[d].lesson IN
    /\ Ready(d, "save")
    /\ IF Saveable(d)
       THEN /\ staged' = [staged EXCEPT ![l] = request[d].shows]
            /\ Ends(d) /\ Bump(d, {}, {l}, FALSE) /\ Replace(d, {"save", "publish"}, l)
            /\ UNCHANGED <<status, written, drafting, based, rewritten, placed, known>>
       ELSE Refuse(d)

\* publish_fundamentals_draft: the draft is saved, its presentations must be converted
\* (any of them may still block), and the lesson must be as it was when the draft was
\* started; of the restored and reordered lessons the version says that it is not.
Publishes(d) ==
    LET l == request[d].lesson IN
    /\ status' = [status EXCEPT ![l] = "active"]
    /\ written' = [written EXCEPT ![l] = TRUE]
    /\ drafting' = [drafting EXCEPT ![l] = FALSE]
    /\ placed' = [placed EXCEPT ![l] = request[d].shows]
    /\ staged' = [staged EXCEPT ![l] = {}] /\ known' = [known EXCEPT ![l] = {}]
    /\ based' = [based EXCEPT ![l] = FALSE] /\ rewritten' = [rewritten EXCEPT ![l] = FALSE]
    /\ Ends(d) /\ Bump(d, {l}, {l}, TRUE) /\ Replace(d, {"edit", "save", "publish"}, l)
Publish(d) ==
    LET l == request[d].lesson IN
    /\ Ready(d, "publish")
    /\ IF Saveable(d) /\ based[l] /\ status[l] \in {"draft", "active"}
       THEN Publishes(d)
       ELSE Refuse(d)
PublishIsBlocked(d) == Ready(d, "publish") /\ request[d].shows # {} /\ Refuse(d)

\* abandon_fundamentals_draft: a lesson never published is archived with its draft.
Abandon(d) ==
    LET l == request[d].lesson IN
    /\ Ready(d, "abandon")
    /\ IF ~drafting[l] THEN Refuse(d)
       ELSE /\ drafting' = [drafting EXCEPT ![l] = FALSE]
            /\ status' = [status EXCEPT ![l] = IF @ = "draft" THEN "archived" ELSE @]
            /\ staged' = [staged EXCEPT ![l] = {}] /\ known' = [known EXCEPT ![l] = {}]
            /\ based' = [based EXCEPT ![l] = FALSE] /\ rewritten' = [rewritten EXCEPT ![l] = FALSE]
            /\ Ends(d) /\ Bump(d, {}, {l}, FALSE) /\ Keep(d)
            /\ UNCHANGED <<written, placed>>

\* add_draft_external_asset, upload_draft_file_asset and detach_draft_asset leave the
\* version of the draft alone.
Attach(d) ==
    LET l == request[d].lesson
        new == IF request[d].doing = "attach" THEN staged[l] \cup request[d].material
               ELSE staged[l] \ request[d].material
    IN /\ Ready(d, "attach") \/ Ready(d, "detach")
       /\ IF drafting[l] /\ new # staged[l]
          THEN /\ staged' = [staged EXCEPT ![l] = new]
               /\ Ends(d) /\ Bump(d, {}, {}, FALSE) /\ Keep(d)
               /\ UNCHANGED <<status, written, drafting, based, rewritten, placed, known>>
          ELSE Refuse(d)

\* add_fundamentals_external_asset and upload_fundamentals_file_asset attach to the
\* published revision and leave the version of the lesson alone.
Add(d) ==
    LET l == request[d].lesson IN
    /\ Ready(d, "add")
    /\ IF status[l] # "active" THEN Refuse(d)
       ELSE /\ placed' = [placed EXCEPT ![l] = @ \cup request[d].material]
            /\ Ends(d) /\ Bump(d, {}, {}, TRUE) /\ Keep(d)
            /\ UNCHANGED <<status, written, drafting, based, rewritten, known, staged>>

\* update_fundamentals_item.
EditsAnyVersion(d) ==
    LET l == request[d].lesson IN
    /\ Ready(d, "edit")
    /\ IF status[l] # "active" THEN Refuse(d)
       ELSE /\ rewritten' = [rewritten EXCEPT ![l] = drafting[l]]
            /\ based' = [based EXCEPT ![l] = FALSE]
            /\ Ends(d) /\ Bump(d, {l}, {}, TRUE) /\ Replace(d, {"edit"}, l)
            /\ UNCHANGED <<status, written, drafting, placed, known, staged>>
Edit(d) ==
    LET l == request[d].lesson IN
    /\ Ready(d, "edit")
    /\ IF status[l] # "active" \/ d \notin fresh THEN Refuse(d)
       ELSE /\ rewritten' = [rewritten EXCEPT ![l] = drafting[l]]
            /\ based' = [based EXCEPT ![l] = FALSE]
            /\ Ends(d) /\ Bump(d, {l}, {}, TRUE) /\ Replace(d, {"edit"}, l)
            /\ UNCHANGED <<status, written, drafting, placed, known, staged>>

\* reorder_active_items advances the version of every lesson it numbers.
Numbered(ls) == based' = [l \in Lessons |-> based[l] /\ l \notin ls]

\* set_fundamentals_item_archived.
Archive(d) ==
    LET l == request[d].lesson
        to == IF request[d].doing = "archive" THEN "archived" ELSE "active"
        from == IF request[d].doing = "archive" THEN "active" ELSE "archived"
    IN /\ Ready(d, "archive") \/ Ready(d, "restore")
       /\ IF status[l] # from \/ d \notin fresh THEN Refuse(d)
          ELSE /\ status' = [status EXCEPT ![l] = to]
               /\ Numbered(Active \cup {l})
               /\ Ends(d) /\ Bump(d, Active \cup {l}, {}, TRUE) /\ Keep(d)
               /\ UNCHANGED <<written, drafting, rewritten, placed, known, staged>>

\* reorder_fundamentals_items: the list must be the one the page shows.
Reorder(d) ==
    /\ Ready(d, "reorder")
    /\ IF d \notin fresh \/ request[d].list # Active THEN Refuse(d)
       ELSE /\ Numbered(Active)
            /\ Ends(d) /\ Bump(d, Active, {}, TRUE) /\ Keep(d)
            /\ UNCHANGED <<status, written, drafting, rewritten, placed, known, staged>>

Commits(d) ==
    \/ Create(d) \/ NewDraft(d) \/ Start(d) \/ Save(d) \/ Publish(d) \/ PublishIsBlocked(d)
    \/ Abandon(d) \/ Attach(d) \/ Add(d) \/ Edit(d) \/ Archive(d) \/ Reorder(d)
Advances(d) == Lock(d) \/ Commits(d)
Next == \E d \in Directors : Send(d) \/ Advances(d) \/ DeadlockAborts(d)

Spec == Init /\ [][Next]_vars
\* Row locks are granted in the order they were asked for.
FairSpec == Spec /\ \A d \in Directors : SF_vars(Advances(d)) /\ WF_vars(DeadlockAborts(d))

-----------------------------------------------------------------------------
Succeeds(d, kinds) == request[d].doing \in kinds /\ request'[d] = Idle /\ lessonVars' # lessonVars

\* Of two directors who changed the same text, the second is sent back: a text is
\* replaced only by someone who saw it, a lesson's by a draft that was started from it.
TextReplacedKnowingly ==
    [][\A d \in Directors :
          /\ Succeeds(d, {"edit", "save", "publish"}) => d \notin missed
          /\ Succeeds(d, {"publish"}) => ~rewritten[request[d].lesson]]_vars

\* However many commands wait in whatever order of rows, one of those under way waits for
\* nobody, or waits for itself and is found by PostgreSQL.
SomeCommandMoves ==
    (\E d \in Directors : request[d] # Idle) =>
        \E d \in Directors : request[d] # Idle /\ (Blockers(d) = {} \/ Deadlocked(d))

\* Every command ends, although publications and archives lock rows in another order
\* than drafts and reorderings.
CommandEnds == \A d \in Directors : request[d] # Idle ~> request[d] = Idle

\* "The published lesson changed.": a publication is refused for the lesson's sake only
\* when somebody changed its text or its materials after the draft was started.
RefusedMeansChanged ==
    [][\A d \in Directors, l \in Lessons :
          /\ request[d].lesson = l /\ request[d].doing = "publish" /\ request'[d] = Idle
          /\ request[d].shows = {} /\ Saveable(d) /\ status[l] = "active"
          /\ drafting'[l] /\ ~Deadlocked(d)
          => rewritten[l] \/ placed[l] # known[l]]_vars

\* "The published lesson changed. Reload before publishing this draft.": a publication
\* does not remove a material its author has never seen.
MaterialSurvivesPublishing ==
    [][\A d \in Directors :
          Succeeds(d, {"publish"}) =>
             placed[request[d].lesson] \subseteq known[request[d].lesson] \cup request[d].shows]_vars

\* "This draft changed in another session. Reload before editing.": a save does not
\* remove a material that was attached after the page was loaded.
SaveKeepsUploads ==
    [][\A d \in Directors :
          Succeeds(d, {"save"}) => staged[request[d].lesson] \subseteq request[d].shows]_vars

\* "Private Fundamentals draft": what teachers see was published or created as a lesson.
ShownWasPublished == \A l \in Lessons : status[l] = "active" => written[l]
=============================================================================
