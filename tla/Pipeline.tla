------------------------------ MODULE Pipeline ------------------------------
(***************************************************************************)
(* The hiring pipelines of an organisation, their stages and transitions,  *)
(* and the pipeline of one of its jobs: HiringPipelineRecruiterService.    *)
(***************************************************************************)
EXTENDS Server, Sequences, SequencesExt

CONSTANTS
    PipelineNames,  \* names of pipelines
    Keys,           \* keys of stages
    Structures,     \* stages and transitions a transaction is asked for
    FirstPipeline,  \* the pipeline there is to begin with
    NoPipeline      \* stands for a null reference

ASSUME PipelineAssumption ==
    FirstPipeline \notin Requests /\ NoPipeline \notin Requests \cup {FirstPipeline}

VARIABLES
    pipelines,      \* hiring_pipelines: the names of those that exist
    stages,         \* hiring_pipeline_stages
    transitions,    \* hiring_pipeline_transitions
    jobPipeline     \* hiringPipelineId of the job

ptables == <<pipelines, stages, transitions, jobPipeline>>

Orders == 1..Cardinality(Keys)

StageRow(p, id, key, order) == [id |-> id, pipeline |-> p, key |-> key, order |-> order]
LinkRow(p, id, from, to) == [id |-> id, pipeline |-> p, from |-> from, to |-> to]

StagesOf(p) == {s \in stages : s.pipeline = p}
KeysOf(p) == {s.key : s \in StagesOf(p)}
LinksOf(p) == {t \in transitions : t.pipeline = p}
PipelineExists(p) == p \in DOMAIN pipelines
StageById(id) == CHOOSE s \in stages : s.id = id
LinkById(id) == CHOOSE t \in transitions : t.id = id
StageIds == {s.id : s \in stages}
LinkIds == {t.id : t \in transitions}

\* One pipeline with two stages, from the first to the second.
PipelineInit ==
    \E a, b \in Keys : \E n \in PipelineNames :
        /\ a # b
        /\ pipelines = [p \in {FirstPipeline} |-> n]
        /\ stages = {StageRow(FirstPipeline, <<FirstPipeline, a>>, a, 1),
                     StageRow(FirstPipeline, <<FirstPipeline, b>>, b, 2)}
        /\ transitions = {LinkRow(FirstPipeline, <<FirstPipeline, a, b>>, a, b)}
        /\ jobPipeline = FirstPipeline

\* The unique indexes (pipelineId, key), (pipelineId, order) and (pipelineId, from, to).
StageFits(s) == \A t \in stages : t.id # s.id /\ t.pipeline = s.pipeline =>
                                      t.key # s.key /\ t.order # s.order
LinkFits(l) == \A t \in transitions : t.id # l.id /\ t.pipeline = l.pipeline =>
                                          <<t.from, t.to>> # <<l.from, l.to>>

NameTaken(n) == \E p \in DOMAIN pipelines : pipelines[p] = n

\* insert into, or update of, one row; an index or a foreign key may refuse it.
PutStage(s) ==
    stages' = IF StageFits(s) /\ PipelineExists(s.pipeline)
              THEN {t \in stages : t.id # s.id} \cup {s} ELSE stages
PutLink(l) ==
    transitions' = IF LinkFits(l) /\ PipelineExists(l.pipeline)
                   THEN {t \in transitions : t.id # l.id} \cup {l} ELSE transitions

-----------------------------------------------------------------------------
(* Pipelines and their jobs *)

CheckCreate(h) ==
    /\ At(h, "createPipeline", "start")
    /\ Check(h, ~NameTaken(Arg(h)), "insert")
    /\ UNCHANGED ptables

InsertPipeline(h) ==
    /\ At(h, "createPipeline", "insert")
    /\ pipelines' = [p \in DOMAIN pipelines \cup {h} |-> IF p = h THEN Arg(h) ELSE pipelines[p]]
    /\ End(h)
    /\ UNCHANGED <<stages, transitions, jobPipeline>>

CheckUpdate(h) ==
    /\ At(h, "updatePipeline", "start")
    /\ LET p == Arg(h).pipeline IN
       Check(h, PipelineExists(p) /\ (Arg(h).name # pipelines[p] => ~NameTaken(Arg(h).name)), "save")
    /\ UNCHANGED ptables

SavePipeline(h) ==
    /\ At(h, "updatePipeline", "save")
    /\ pipelines' = [p \in DOMAIN pipelines |->
                        IF p = Arg(h).pipeline THEN Arg(h).name ELSE pipelines[p]]
    /\ End(h)
    /\ UNCHANGED <<stages, transitions, jobPipeline>>

CheckDelete(h) ==
    /\ At(h, "deletePipeline", "start")
    /\ Check(h, PipelineExists(Arg(h)), "jobs")
    /\ UNCHANGED ptables

FreeJobs(h) ==
    /\ At(h, "deletePipeline", "jobs")
    /\ jobPipeline' = IF jobPipeline = Arg(h) THEN NoPipeline ELSE jobPipeline
    /\ Goto(h, "stages")
    /\ UNCHANGED <<pipelines, stages, transitions>>

DeleteStages(h) ==
    /\ At(h, "deletePipeline", "stages")
    /\ stages' = stages \ StagesOf(Arg(h))
    /\ Goto(h, "links")
    /\ UNCHANGED <<pipelines, transitions, jobPipeline>>

DeleteLinks(h) ==
    /\ At(h, "deletePipeline", "links")
    /\ transitions' = transitions \ LinksOf(Arg(h))
    /\ Goto(h, "delete")
    /\ UNCHANGED <<pipelines, stages, jobPipeline>>

\* What was added meanwhile is deleted by cascade; a job assigned meanwhile forbids it.
DeletePipeline(h) ==
    /\ At(h, "deletePipeline", "delete")
    /\ IF jobPipeline = Arg(h)
       THEN UNCHANGED ptables
       ELSE /\ pipelines' = [p \in DOMAIN pipelines \ {Arg(h)} |-> pipelines[p]]
            /\ stages' = stages \ StagesOf(Arg(h))
            /\ transitions' = transitions \ LinksOf(Arg(h))
            /\ UNCHANGED jobPipeline
    /\ End(h)

CheckAssign(h) ==
    /\ At(h, "assignJob", "start")
    /\ Check(h, PipelineExists(Arg(h)) /\ jobPipeline = NoPipeline, "assign")
    /\ UNCHANGED ptables

AssignJob(h) ==
    /\ At(h, "assignJob", "assign")
    /\ jobPipeline' = IF PipelineExists(Arg(h)) THEN Arg(h) ELSE jobPipeline
    /\ End(h)
    /\ UNCHANGED <<pipelines, stages, transitions>>

\* update(jobId, {hiringPipelineId: undefined}) sets no column.
RemoveJob(h) ==
    /\ At(h, "removeJob", "start")
    /\ End(h)
    /\ UNCHANGED ptables

-----------------------------------------------------------------------------
(* Stages *)

CheckStage(h) ==
    /\ At(h, "createStage", "start")
    /\ Check(h, PipelineExists(Arg(h).pipeline) /\ Arg(h).key \notin KeysOf(Arg(h).pipeline), "insert")
    /\ UNCHANGED ptables

InsertStage(h) ==
    /\ At(h, "createStage", "insert")
    /\ PutStage(StageRow(Arg(h).pipeline, <<h, Arg(h).key>>, Arg(h).key, Arg(h).order))
    /\ End(h)
    /\ UNCHANGED <<pipelines, transitions, jobPipeline>>

\* The transitions that name the old key are not looked at.
CheckUpdateStage(h) ==
    /\ At(h, "updateStage", "start")
    /\ LET id == Arg(h).id  s == StageById(id) IN
       Check(h, id \in StageIds /\ (Arg(h).key # s.key => Arg(h).key \notin KeysOf(s.pipeline)), "save")
    /\ UNCHANGED ptables

UpdateStage(h) ==
    /\ At(h, "updateStage", "save")
    /\ LET id == Arg(h).id  s == StageById(id) IN
       IF id \in StageIds
       THEN PutStage([s EXCEPT !.key = Arg(h).key, !.order = Arg(h).order])
       ELSE UNCHANGED stages
    /\ End(h)
    /\ UNCHANGED <<pipelines, transitions, jobPipeline>>

CheckDeleteStage_FromOnly(h) ==
    /\ At(h, "deleteStage", "start")
    /\ Check(h, Arg(h) \in StageIds /\ \A t \in transitions : StageById(Arg(h)).key # t.from, "delete")
    /\ UNCHANGED ptables

\* The transitions of every pipeline are looked at.
CheckDeleteStage(h) ==
    /\ At(h, "deleteStage", "start")
    /\ Check(h, /\ Arg(h) \in StageIds
                /\ \A t \in transitions : StageById(Arg(h)).key \notin {t.from, t.to}, "delete")
    /\ UNCHANGED ptables

DeleteStage(h) ==
    /\ At(h, "deleteStage", "delete")
    /\ stages' = {s \in stages : s.id # Arg(h)}
    /\ End(h)
    /\ UNCHANGED <<pipelines, transitions, jobPipeline>>

CheckReorder(h) ==
    /\ At(h, "reorderStages", "start")
    /\ IF \A id \in Range(Arg(h).ids) : \E s \in StagesOf(Arg(h).pipeline) : s.id = id
       THEN Keep(h, "place", 1)
       ELSE End(h)
    /\ UNCHANGED ptables

\* update(id, {order}), one stage after the other: the index on (pipelineId, order)
\* rejects an order that another stage still has, and what was done stays.
PlaceStage(h) ==
    /\ At(h, "reorderStages", "place")
    /\ LET n == Mem(h)  id == Arg(h).ids[n]  s == [StageById(id) EXCEPT !.order = n] IN
       /\ IF id \in StageIds THEN PutStage(s) ELSE UNCHANGED stages
       /\ IF (id \in StageIds => StageFits(s)) /\ n < Len(Arg(h).ids)
          THEN Keep(h, "place", n + 1) ELSE End(h)
    /\ UNCHANGED <<pipelines, transitions, jobPipeline>>

-----------------------------------------------------------------------------
(* Transitions *)

CheckLink(h) ==
    /\ At(h, "createTransition", "start")
    /\ LET p == Arg(h).pipeline IN
       Check(h, /\ PipelineExists(p)
                /\ {Arg(h).from, Arg(h).to} \subseteq KeysOf(p)
                /\ LinkFits(LinkRow(p, <<h>>, Arg(h).from, Arg(h).to)), "insert")
    /\ UNCHANGED ptables

InsertLink(h) ==
    /\ At(h, "createTransition", "insert")
    /\ PutLink(LinkRow(Arg(h).pipeline, <<h, Arg(h).from, Arg(h).to>>, Arg(h).from, Arg(h).to))
    /\ End(h)
    /\ UNCHANGED <<pipelines, stages, jobPipeline>>

CheckUpdateLink(h) ==
    /\ At(h, "updateTransition", "start")
    /\ LET id == Arg(h).id  new == [LinkById(id) EXCEPT !.from = Arg(h).from, !.to = Arg(h).to] IN
       Check(h, /\ id \in LinkIds
                /\ {Arg(h).from, Arg(h).to} \subseteq KeysOf(new.pipeline)
                /\ LinkFits(new), "save")
    /\ UNCHANGED ptables

UpdateLink(h) ==
    /\ At(h, "updateTransition", "save")
    /\ LET id == Arg(h).id IN
       IF id \in LinkIds
       THEN PutLink([LinkById(id) EXCEPT !.from = Arg(h).from, !.to = Arg(h).to])
       ELSE UNCHANGED transitions
    /\ End(h)
    /\ UNCHANGED <<pipelines, stages, jobPipeline>>

DeleteLink(h) ==
    /\ At(h, "deleteTransition", "start")
    /\ transitions' = {t \in transitions : t.id # Arg(h)}
    /\ End(h)
    /\ UNCHANGED <<pipelines, stages, jobPipeline>>

-----------------------------------------------------------------------------
(* A pipeline with its stages and transitions, in one transaction.  What it *)
(* reads is not locked, and what it writes is seen when it commits.          *)

Built(h, p, keys) ==
    {StageRow(p, <<h, keys[i]>>, keys[i], i) : i \in DOMAIN keys}
Linked(h, p, links) == {LinkRow(p, <<h, l[1], l[2]>>, l[1], l[2]) : l \in links}
Joins(links, keys) == \A l \in links : {l[1], l[2]} \subseteq keys

CheckReplace(h) ==
    /\ At(h, "replacePipeline", "start")
    /\ LET p == Arg(h).pipeline IN
       Check(h, PipelineExists(p) /\ (Arg(h).name # pipelines[p] => ~NameTaken(Arg(h).name)), "stages")
    /\ UNCHANGED ptables

\* Without stages in the request, those there are remain.
CheckStructure(h) ==
    /\ At(h, "replacePipeline", "stages")
    /\ LET keys == IF Arg(h).keys = <<>> THEN KeysOf(Arg(h).pipeline) ELSE Range(Arg(h).keys) IN
       Check(h, Arg(h).relink => Joins(Arg(h).links, keys), "commit")
    /\ UNCHANGED ptables

ReplacePipeline(h) ==
    /\ At(h, "replacePipeline", "commit")
    /\ LET p == Arg(h).pipeline IN
       IF ~PipelineExists(p)
       THEN UNCHANGED ptables
       ELSE /\ pipelines' = [pipelines EXCEPT ![p] = Arg(h).name]
            /\ stages' = IF Arg(h).keys = <<>> THEN stages
                         ELSE (stages \ StagesOf(p)) \cup Built(h, p, Arg(h).keys)
            /\ transitions' = IF Arg(h).relink
                              THEN (transitions \ LinksOf(p)) \cup Linked(h, p, Arg(h).links)
                              ELSE transitions
            /\ UNCHANGED jobPipeline
    /\ End(h)

CheckCompose(h) ==
    /\ At(h, "composePipeline", "start")
    /\ Check(h, ~NameTaken(Arg(h).name) /\ Joins(Arg(h).links, Range(Arg(h).keys)), "commit")
    /\ UNCHANGED ptables

ComposePipeline(h) ==
    /\ At(h, "composePipeline", "commit")
    /\ pipelines' = [p \in DOMAIN pipelines \cup {h} |-> IF p = h THEN Arg(h).name ELSE pipelines[p]]
    /\ stages' = stages \cup Built(h, h, Arg(h).keys)
    /\ transitions' = transitions \cup Linked(h, h, Arg(h).links)
    /\ End(h)
    /\ UNCHANGED jobPipeline

-----------------------------------------------------------------------------
Links == Keys \X Keys
PipelineRequest(h) ==
    /\ \/ \E n \in PipelineNames : Ask(h, "createPipeline", n)
       \/ \E p \in DOMAIN pipelines :
              \/ Ask(h, "deletePipeline", p) \/ Ask(h, "assignJob", p) \/ Ask(h, "removeJob", p)
              \/ \E n \in PipelineNames : Ask(h, "updatePipeline", [pipeline |-> p, name |-> n])
              \/ \E k \in Keys, o \in Orders :
                     Ask(h, "createStage", [pipeline |-> p, key |-> k, order |-> o])
              \/ \E l \in Links :
                     Ask(h, "createTransition", [pipeline |-> p, from |-> l[1], to |-> l[2]])
              \/ \E ids \in SetToSeqs({s.id : s \in StagesOf(p)}) :
                     ids # <<>> /\ Ask(h, "reorderStages", [pipeline |-> p, ids |-> ids])
              \/ \E s \in Structures, n \in PipelineNames :
                     Ask(h, "replacePipeline", [pipeline |-> p, name |-> n, keys |-> s.keys,
                                                links |-> s.links, relink |-> s.relink])
       \/ \E s \in Structures, n \in PipelineNames :
              s.keys # <<>> /\ s.relink
              /\ Ask(h, "composePipeline", [name |-> n, keys |-> s.keys, links |-> s.links])
       \/ \E id \in StageIds :
              \/ Ask(h, "deleteStage", id)
              \/ \E k \in Keys, o \in Orders : Ask(h, "updateStage", [id |-> id, key |-> k, order |-> o])
       \/ \E id \in LinkIds :
              \/ Ask(h, "deleteTransition", id)
              \/ \E l \in Links : Ask(h, "updateTransition", [id |-> id, from |-> l[1], to |-> l[2]])
    /\ UNCHANGED ptables

PipelineStep(h) ==
    \/ CheckCreate(h) \/ InsertPipeline(h) \/ CheckUpdate(h) \/ SavePipeline(h)
    \/ CheckDelete(h) \/ FreeJobs(h) \/ DeleteStages(h) \/ DeleteLinks(h) \/ DeletePipeline(h)
    \/ CheckAssign(h) \/ AssignJob(h) \/ RemoveJob(h)
    \/ CheckStage(h) \/ InsertStage(h) \/ CheckUpdateStage(h) \/ UpdateStage(h)
    \/ CheckDeleteStage(h) \/ DeleteStage(h) \/ CheckReorder(h) \/ PlaceStage(h)
    \/ CheckLink(h) \/ InsertLink(h) \/ CheckUpdateLink(h) \/ UpdateLink(h) \/ DeleteLink(h)
    \/ CheckReplace(h) \/ CheckStructure(h) \/ ReplacePipeline(h)
    \/ CheckCompose(h) \/ ComposePipeline(h)

PipelineNext ==
    \E h \in Requests : PipelineRequest(h) \/ PipelineStep(h) \/ (Fault(h) /\ UNCHANGED ptables)

PipelineSpec == SInit /\ PipelineInit /\ [][PipelineNext]_<<svars, ptables>>

-----------------------------------------------------------------------------
(* Properties *)

\* A transition joins two stages of its pipeline.
LinksJoinStages == \A t \in transitions : {t.from, t.to} \subseteq KeysOf(t.pipeline)

\* No two pipelines of the organisation have the same name.
NamesDiffer == \A p, q \in DOMAIN pipelines : p # q => pipelines[p] # pipelines[q]
=============================================================================
