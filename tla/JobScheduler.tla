---------------------------- MODULE JobScheduler ----------------------------
(***************************************************************************)
(* How many instances one round of the job poller asks for: the idle jobs  *)
(* get their priorities from Maui and are sorted (prioritise_jobs), then   *)
(* calculate_new_instances packs them, one by one, onto new nodes of the   *)
(* cloud resources that have cores left, and each node becomes a request.  *)
(* An exception in any step ends the job poller.                           *)
(***************************************************************************)
EXTENDS Integers, FiniteSets, SequencesExt

CONSTANTS
    CloudResources,     \* config.cloud_resources
    Available,          \* available_number_of_nodes of each
    Flavors,            \* numbers of cores of the worker node flavors of each
    Locations,          \* what get_default_node_location may answer
    Ids,                \* job numbers (the same for all sub-jobs of a job array)
    JobKinds,           \* what a job asks for: account or queue, and its resource list
    Priorities,         \* what Maui may say of a job
    MaxJobs             \* most idle jobs in a round, and most jobs Maui lists

Absent == -1            \* an attribute the job does not have,
Text   == -2            \* or one that is not a number

Attributes == Nat \cup {Absent, Text}
Kinds == [account : STRING, neednodes : Attributes, ncpus : Attributes, nodes : Attributes]

ASSUME ResourcesAssumption == IsFiniteSet(CloudResources) /\ "default" \in CloudResources
ASSUME AvailableAssumption == Available \in [CloudResources -> Int]
ASSUME FlavorsAssumption   ==
    /\ DOMAIN Flavors = CloudResources
    /\ \A r \in CloudResources :
         Flavors[r] \subseteq Nat \ {0} /\ Flavors[r] # {} /\ IsFiniteSet(Flavors[r])
ASSUME JobsAssumption      == Ids \subseteq Nat /\ JobKinds \subseteq Kinds /\ MaxJobs \in Nat
ASSUME PriorityAssumption  == Priorities \subseteq Int

VARIABLES
    phase,          \* where the round is, or the exception that ended it
    idle_jobs,
    job_priorities, \* Maui's list, sorted by job number
    number_of_wn,
    next,           \* the job that is looked at
    idx,            \* position in job_priorities
    req_list,       \* the new nodes of each resource, with what is packed onto them
    flavor_list     \* the requests

vars == <<phase, idle_jobs, job_priorities, number_of_wn, next, idx, req_list, flavor_list>>

Raised     == {"KeyError", "IndexError", "ValueError"}
NoPriority == <<>>                      \* the job has no "job_priority"; <<p>> if it has

Jobs        == [id : Ids, kind : JobKinds, priority : {NoPriority} \cup {<<p>> : p \in Priorities}]
Listings    == [id : Ids, priority : Priorities]
Chunks      == [job : Nat, cores : Nat] \* an entry of vcpu_list; the job is kept for JobsPlaced
Allocations == [location : Locations, vcpu_list : Seq(Chunks)]
Wanted      == [flavor : Nat, location : Locations, resource : CloudResources]

SchedulerTypeOK ==
    /\ phase \in {"merge", "sort", "size", "convert", "done"} \cup Raised
    /\ idle_jobs \in Seq(Jobs)
    /\ job_priorities \in Seq(Listings)
    /\ number_of_wn \in Nat
    /\ next \in Nat \ {0}
    /\ idx \in Nat \ {0}
    /\ req_list \in [CloudResources -> Seq(Allocations)]
    /\ flavor_list \in Seq(Wanted)

(* qstat and Maui answer; both lists are sorted by job number.             *)
IdLists     == {s \in BoundedSeq(Ids, MaxJobs) : \A i, j \in DOMAIN s : i < j => s[i] <= s[j]}
NewJobs(s)  == {[i \in DOMAIN s |-> [id |-> s[i], kind |-> k[i], priority |-> NoPriority]] :
                    k \in [DOMAIN s -> JobKinds]}
MauiLists   == {s \in BoundedSeq(Listings, MaxJobs) :
                    \A i, j \in DOMAIN s : i < j => s[i].id < s[j].id}

Init ==
    /\ phase = "merge"
    /\ \E s \in IdLists : idle_jobs \in NewJobs(s)
    /\ job_priorities \in MauiLists
    /\ number_of_wn \in {0, 1}
    /\ next = 1
    /\ idx = 1
    /\ req_list = [r \in CloudResources |-> <<>>]
    /\ flavor_list = <<>>

-----------------------------------------------------------------------------
(* prioritise_jobs                                                         *)

(* Mutated form: the position is not moved on.                             *)
StayHere(id) == idx

(* Where the inner loop stops that skips the smaller numbers of Maui's     *)
(* list: at the first that is not smaller, or at the last entry.           *)
Advance(id) ==
    LET stops == {k \in idx .. Len(job_priorities) : job_priorities[k].id >= id}
    IN  IF stops = {} THEN Len(job_priorities) ELSE Min(stops)

(* One pass of the loop; it ends early when Maui's list is used up.        *)
MergeJob ==
    /\ phase = "merge" /\ job_priorities # <<>> /\ next <= Len(idle_jobs)
    /\ LET id    == idle_jobs[next].id
           k     == Advance(id)
           found == job_priorities[k].id = id
           after == IF found THEN k + 1 ELSE k
       IN  /\ idle_jobs' = IF found
                           THEN [idle_jobs EXCEPT ![next].priority = <<job_priorities[k].priority>>]
                           ELSE idle_jobs
           /\ idx' = after
           /\ IF after > Len(job_priorities) \/ job_priorities[k].id < id
              THEN phase' = "sort" /\ next' = 1
              ELSE next' = next + 1 /\ UNCHANGED phase
    /\ UNCHANGED <<job_priorities, number_of_wn, req_list, flavor_list>>

MergeEnd ==
    /\ phase = "merge"
    /\ job_priorities = <<>> \/ next > Len(idle_jobs)
    /\ phase' = "sort"
    /\ next' = 1
    /\ UNCHANGED <<idle_jobs, job_priorities, number_of_wn, idx, req_list, flavor_list>>

(* list.sort(key, reverse=True): descending, entries with equal keys keep  *)
(* their order.                                                            *)
Descending(s, key) ==
    LET Before(i) == {k \in DOMAIN s : key[k] > key[i] \/ (key[k] = key[i] /\ k < i)}
    IN  [n \in DOMAIN s |-> s[CHOOSE i \in DOMAIN s : Cardinality(Before(i)) = n - 1]]

(* The key of a job that did not get a priority raises KeyError.           *)
SortJobs ==
    /\ phase = "sort"
    /\ IF \E i \in DOMAIN idle_jobs : idle_jobs[i].priority = NoPriority
       THEN phase' = "KeyError" /\ UNCHANGED idle_jobs
       ELSE /\ phase' = "size"
            /\ idle_jobs' = Descending(idle_jobs, [i \in DOMAIN idle_jobs |-> idle_jobs[i].priority[1]])
    /\ UNCHANGED <<job_priorities, number_of_wn, next, idx, req_list, flavor_list>>

-----------------------------------------------------------------------------
(* calculate_new_instances                                                 *)

(* _get_vcpu_requirement: the cores on each node the job asks for, all the *)
(* same; <<>> for None; int() of "nodes" raises if it is not a number.     *)
RawNumber(a) == a                   \* mutated form
Number(a) == IF a = Text THEN 1 ELSE a
Unreadable(kind) ==
    (kind.neednodes = Absent \/ kind.ncpus = Absent) /\ kind.nodes = Text
Requirement(kind) ==
    IF kind.neednodes # Absent /\ kind.ncpus # Absent
    THEN [i \in 1 .. Number(kind.neednodes) |-> Number(kind.ncpus)]
    ELSE IF kind.nodes # Absent THEN <<kind.nodes>>
    ELSE IF kind.neednodes = Absent /\ kind.ncpus = Absent THEN <<1>> ELSE <<>>

MaxCores(r) == Max(Flavors[r])      \* flavor_objects[0].vcpus, sorted by available_cores
Total(res)  == SumFunction([i \in DOMAIN res.vcpu_list |-> res.vcpu_list[i].cores])
Cores(list) == SumFunction([i \in DOMAIN list |-> Total(list[i])])

(* Mutated form: what was requested in this round is not counted.          *)
HaveCoresForOne(r, req) ==
    /\ SumFunction(req) <= Available[r] * MaxCores(r)
    /\ req[1] <= MaxCores(r)

HaveEnoughCores(r, req) ==
    /\ Cores(req_list[r]) + SumFunction(req) <= Available[r] * MaxCores(r)
    /\ req[1] <= MaxCores(r)

Account(kind) == IF kind.account \in CloudResources THEN kind.account ELSE "default"

(* The resource the new nodes are taken from, if there is one.             *)
Targets(kind, location) ==
    LET account == Account(kind)
        req     == Requirement(kind)
    IN  IF account # "default" /\ HaveEnoughCores(account, req) THEN {account}
        ELSE IF HaveEnoughCores("default", req) /\ account # location THEN {"default"} ELSE {}

(* Mutated form: there need only be one core left.                         *)
NotFull(r, list, location, c) ==
    {i \in DOMAIN list : list[i].location = location /\ Total(list[i]) < MaxCores(r)}

(* The nodes of the list that take a part of the job: those with room in   *)
(* its location, the fullest first, as many as the job has parts.          *)
WithRoom(r, list, location, c) ==
    {i \in DOMAIN list : list[i].location = location /\ Total(list[i]) + c <= MaxCores(r)}

Takers(r, list, location, req) ==
    LET room == WithRoom(r, list, location, req[1])
    IN  {i \in room : Cardinality({k \in room : k < i}) < Len(req)}

Fullest(list) == Descending(list, [i \in DOMAIN list |-> Total(list[i])])

(* The loop goes on after the last part is placed: at the next node in     *)
(* this location it reads vcpu_requirement[idx] beyond its end.            *)
Overruns(r, location, req) ==
    LET list   == Fullest(req_list[r])
        takers == Takers(r, list, location, req)
    IN  /\ Cardinality(takers) = Len(req)
        /\ \E i \in DOMAIN list : list[i].location = location /\ \A k \in takers : k < i

(* Mutated form: one node too few for the rest of the job.                 *)
AddAllButOne(r, location, req) ==
    LET list   == Fullest(req_list[r])
        takers == Takers(r, list, location, req)
        chunk  == [job |-> next, cores |-> req[1]]
    IN  [i \in DOMAIN list |->
            IF i \in takers THEN [list[i] EXCEPT !.vcpu_list = Append(@, chunk)] ELSE list[i]]
        \o [i \in 1 .. Len(req) - Cardinality(takers) - 1 |->
                [location |-> location, vcpu_list |-> <<chunk>>]]

AddNewRequirement(r, location, req) ==
    LET list   == Fullest(req_list[r])
        takers == Takers(r, list, location, req)
        chunk  == [job |-> next, cores |-> req[1]]
    IN  [i \in DOMAIN list |->
            IF i \in takers THEN [list[i] EXCEPT !.vcpu_list = Append(@, chunk)] ELSE list[i]]
        \o [i \in 1 .. Len(req) - Cardinality(takers) |->
                [location |-> location, vcpu_list |-> <<chunk>>]]

Job == idle_jobs[next]

(* A job with priority -1 is not looked at while there are worker nodes,   *)
(* nor is one whose requirement is not understood.                         *)
Passed(j) == (j.priority = <<-1>> /\ number_of_wn > 0) \/ (~Unreadable(j.kind) /\ Requirement(j.kind) = <<>>)

PassJob ==
    /\ phase = "size" /\ next <= Len(idle_jobs) /\ Passed(Job)
    /\ next' = next + 1
    /\ UNCHANGED <<phase, idle_jobs, job_priorities, number_of_wn, idx, req_list, flavor_list>>

FailJob ==
    /\ phase = "size" /\ next <= Len(idle_jobs) /\ ~Passed(Job) /\ Unreadable(Job.kind)
    /\ phase' = "ValueError"
    /\ UNCHANGED <<idle_jobs, job_priorities, number_of_wn, next, idx, req_list, flavor_list>>

SizeJob ==
    /\ phase = "size" /\ next <= Len(idle_jobs) /\ ~Passed(Job) /\ ~Unreadable(Job.kind)
    /\ \E location \in Locations :
       LET req     == Requirement(Job.kind)
           targets == Targets(Job.kind, location)
       IN  \/ /\ targets = {}
              /\ next' = next + 1
              /\ UNCHANGED <<phase, req_list>>
           \/ \E r \in targets :
                 IF Overruns(r, location, req)
                 THEN phase' = "IndexError" /\ UNCHANGED <<next, req_list>>
                 ELSE /\ req_list' = [req_list EXCEPT ![r] = AddNewRequirement(r, location, req)]
                      /\ next' = next + 1
                      /\ UNCHANGED phase
    /\ UNCHANGED <<idle_jobs, job_priorities, number_of_wn, idx, flavor_list>>

SizeEnd ==
    /\ phase = "size" /\ next > Len(idle_jobs)
    /\ phase' = "convert"
    /\ UNCHANGED <<idle_jobs, job_priorities, number_of_wn, next, idx, req_list, flavor_list>>

-----------------------------------------------------------------------------
(* convert_req_list_to_flavor                                              *)

(* The smallest flavor that holds the node, else the smallest of all.      *)
BestFlavor(r, res) ==
    LET holding == {f \in Flavors[r] : f >= Total(res)}
    IN  Min(IF holding = {} THEN Flavors[r] ELSE holding)

Convert ==
    /\ phase = "convert"
    /\ \E order \in SetToSeqs(CloudResources) :
         flavor_list' = FlattenSeq([n \in DOMAIN order |->
            LET r == order[n] IN
            [i \in DOMAIN req_list[r] |->
                [flavor |-> BestFlavor(r, req_list[r][i]), location |-> req_list[r][i].location,
                 resource |-> r]]])
    /\ phase' = "done"
    /\ UNCHANGED <<idle_jobs, job_priorities, number_of_wn, next, idx, req_list>>

Next == MergeJob \/ MergeEnd \/ SortJobs \/ PassJob \/ FailJob \/ SizeJob \/ SizeEnd \/ Convert

Spec == Init /\ [][Next]_vars

-----------------------------------------------------------------------------
Listed(id) == \E k \in DOMAIN job_priorities : job_priorities[k].id = id

(* The merge of the two sorted lists gives every job Maui's priority for   *)
(* its number; it leaves one out only if Maui does not list it or another  *)
(* idle job has its number (a sub-job of the same array).                  *)
PrioritiesMatch ==
    /\ phase \in {"size", "convert", "done"} =>
         \A i \in DOMAIN idle_jobs : \E k \in DOMAIN job_priorities :
            /\ job_priorities[k].id = idle_jobs[i].id
            /\ idle_jobs[i].priority = <<job_priorities[k].priority>>
    /\ phase = "KeyError" =>
         \E i \in DOMAIN idle_jobs :
            ~Listed(idle_jobs[i].id) \/ \E j \in DOMAIN idle_jobs \ {i} : idle_jobs[j].id = idle_jobs[i].id

(* Every part of a job that is served is on a node of its own, and no part *)
(* is left out: a job of n nodes gets n different nodes, in one resource.  *)
PartsOn(r, j) ==
    UNION {{i} \X {k \in DOMAIN req_list[r][i].vcpu_list : req_list[r][i].vcpu_list[k].job = j} :
               i \in DOMAIN req_list[r]}
JobsPlaced ==
    \A r \in CloudResources : \A j \in DOMAIN idle_jobs :
        LET parts == PartsOn(r, j) IN
        parts # {} =>
            /\ Cardinality(parts) = Len(Requirement(idle_jobs[j].kind))
            /\ Cardinality({p[1] : p \in parts}) = Cardinality(parts)
            /\ \A q \in CloudResources \ {r} : PartsOn(q, j) = {}

(* The requests for instances of one resource, by position.                *)
RequestsTo(r) == {n \in DOMAIN flavor_list : flavor_list[n].resource = r}

(* Every node is requested, in the order of the list, and from a flavor    *)
(* with room for all that was packed onto it, although packing looks at    *)
(* the largest flavor only: the fallback to the smallest flavor is never   *)
(* taken.                                                                  *)
NodesFit ==
    phase = "done" =>
        \A r \in CloudResources :
            /\ Cardinality(RequestsTo(r)) = Len(req_list[r])
            /\ \A n \in RequestsTo(r) :
                  flavor_list[n].flavor >= Total(req_list[r][Cardinality({m \in RequestsTo(r) : m <= n})])

(* Every part of a job that asks for nodes is a core or more; "ncpus" may  *)
(* be 0.                                                                   *)
PartsHaveCores ==
    \A kind \in JobKinds : ~Unreadable(kind) =>
        \A i \in DOMAIN Requirement(kind) : Requirement(kind)[i] > 0

(* The nodes of a round take no more cores of a resource than it has left: *)
(* the cores of all jobs that are served, on their own account and in the  *)
(* default resource, are counted.  So it asks for no more instances than   *)
(* that (JobPoller relies on this), unless jobs ask for no cores, which    *)
(* have room in a resource that is full.                                   *)
RequestsBounded ==
    \A r \in CloudResources :
        /\ req_list[r] # <<>> => Cores(req_list[r]) <= Available[r] * MaxCores(r)
        /\ PartsHaveCores /\ RequestsTo(r) # {} =>
              Cardinality(RequestsTo(r)) <= Available[r] * MaxCores(r)
=============================================================================
