---------------------------- MODULE GitHubTransport ----------------------------
(***************************************************************************)
(* One call of the release client to GitHub.  Reads are repeated after a   *)
(* loss, a whole read at a time; the creation of a release is sent once,   *)
(* and when its outcome is unknown the releases are listed instead.  The   *)
(* list is read page by page while others add to it and delete from it.    *)
(***************************************************************************)
EXTENDS Integers, Sequences, FiniteSets, SequencesExt

CONSTANTS ReadAttempts,  \* API_READ_ATTEMPTS, 3
          PageSize,      \* per_page, 100
          MaxRequests,   \* bound on the requests of a readback, 100 in the code
          MaxRecords, MaxFaults,  \* bounds on records ever made, and on bad responses
          None

VARIABLES records,   \* the releases, the newest first, as GitHub lists them
          made,      \* records made so far; their numbers are their ids
          post,      \* the creation: not sent, sent, or answered by the server
          op,        \* the call: optional and pages read, create and readback
          result,    \* its result, None while it runs
          attempt, page, gathered, requests,
          always, ever, deleted,  \* history of this attempt: records throughout it,
                                  \* at some time of it, and if any was deleted
          created,   \* history: records the call has created
          faults

server == <<records, made>>
call == <<op, result, attempt, page, gathered, requests>>
history == <<always, ever, deleted>>
vars == <<server, post, call, history, created, faults>>

Ops == {"optional", "pages", "create", "readback"}
Results == {"present", "absent", "list", "created", "error"}
Target == 1    \* the record whose presence an optional read is about

\* What a run of gh leaves: the last HTTP status it printed, if any, its exit code, what
\* its diagnostics speak of, and if it ran into the time limit.
Response == [head : {200, 201, 403, 404, 500, None}, rc : {0, 1},
             said : {"nothing", "loss", "denial"}, timeout : BOOLEAN]

Whole(status) == [head |-> status, rc |-> IF status < 300 THEN 0 ELSE 1, timeout |-> FALSE,
                  said |-> IF status \in {403, 404} THEN "denial" ELSE "nothing"]

\* A 404 comes from the server alone.
Bad == {r \in Response : /\ r.head # 404
                         /\ r.timeout \/ r.head = None \/ r.rc = 1}

Init == /\ made \in 0..MaxRecords
        /\ records = [i \in 1..made |-> made + 1 - i]
        /\ post = "no" /\ op = "optional" /\ result = "error"
        /\ attempt = 1 /\ page = 1 /\ gathered = <<>> /\ requests = 0
        /\ always = {} /\ ever = {} /\ deleted = FALSE
        /\ created = 0 /\ faults = 0

Listed(p) == SubSeq(records, (p - 1) * PageSize + 1,
                    IF p * PageSize < Len(records) THEN p * PageSize ELSE Len(records))
HasNext(p) == Len(records) > p * PageSize

Watch == always' = Range(records) /\ ever' = Range(records) /\ deleted' = FALSE

Begin(o) == /\ result # None
            /\ o # "readback" /\ (o = "create" => post = "no")
            /\ op' = o /\ result' = None
            /\ attempt' = 1 /\ page' = 1 /\ gathered' = <<>> /\ requests' = 0
            /\ post' = IF o = "create" THEN "sent" ELSE post
            /\ Watch
            /\ UNCHANGED <<server, created, faults>>

\* A good response, which no fault is needed for, or a bad one.
Answers(good, r) == \/ r = good /\ UNCHANGED faults
                    \/ r \in Bad /\ faults < MaxFaults /\ faults' = faults + 1
-------------------------------------------------------------------------------
(***************************************************************************)
(* Reads: _read_get, _completed_read, response, optional, pages.           *)
(***************************************************************************)
Denied(r) == r.said = "denial" \/ r.head \in {403, 404}
Lost(r) == r.rc = 1 /\ r.said = "loss"
Good(r, status) == ~r.timeout /\ r.rc = 0 /\ r.head = status

\* A denial is never repeated, however the response broke off.
Transient(r) ==
    IF r.timeout \/ r.head = None THEN (r.timeout \/ Lost(r)) /\ ~Denied(r)
    ELSE r.rc = 1 /\ \/ r.head = 500 /\ r.said # "denial"
                     \/ r.head \in 200..299 /\ Lost(r)

\* Only a status GitHub sent says that something is missing.
NotFound(r) == ~r.timeout /\ r.rc = 1 /\ r.head = 404

Again == page' = 1 /\ gathered' = <<>>

Finish(outcome) == result' = outcome /\ UNCHANGED <<attempt, page, gathered, history>>

GatherPage ==
    /\ gathered' = gathered \o Listed(page)
    /\ IF HasNext(page) THEN page' = page + 1 /\ UNCHANGED result
                        ELSE result' = "list" /\ UNCHANGED page
    /\ UNCHANGED <<attempt, history>>

Read ==
    /\ result = None /\ op \in {"optional", "pages"}
    /\ \E r \in Response :
          /\ Answers(Whole(IF op = "optional" /\ Target \notin Range(records)
                           THEN 404 ELSE 200), r)
          /\ IF Good(r, 200) THEN IF op = "pages" THEN GatherPage ELSE Finish("present")
             ELSE IF Transient(r) /\ attempt < ReadAttempts
             THEN attempt' = attempt + 1 /\ Again /\ Watch /\ UNCHANGED result
             ELSE Finish(IF op = "optional" /\ NotFound(r) THEN "absent" ELSE "error")
    /\ UNCHANGED <<server, post, op, requests, created>>
-------------------------------------------------------------------------------
(***************************************************************************)
(* create_release_once and CreateReadback.pages.                           *)
(***************************************************************************)
\* The server handles the request, when the client may have given it up.
Serve == /\ post = "sent"
         /\ \/ /\ made < MaxRecords
               /\ made' = made + 1
               /\ records' = <<made'>> \o records
               /\ post' = "done" /\ created' = created + 1
               /\ ever' = ever \cup {made'}
            \/ post' = "refused" /\ UNCHANGED <<server, ever, created>>
         /\ UNCHANGED <<call, always, deleted, faults>>

\* A 201 with a body that breaks off is no answer either: its step is that of a lost one.
Ambiguous(r) == /\ ~Denied(r)
                /\ \/ r.timeout
                   \/ r.head = None /\ Lost(r)
                   \/ r.head = 500
                   \/ r.head \in 200..299 /\ Lost(r)

\* Mutant: the request is sent again.
MutReconcile == post' = "sent" /\ UNCHANGED <<op, attempt, page, gathered, requests, history>>

\* The request is not repeated: what GitHub has now is listed.
Reconcile == /\ op' = "readback"
             /\ page' = 1 /\ gathered' = <<>> /\ requests' = 0
             /\ Watch
             /\ UNCHANGED <<attempt, post>>

Create ==
    /\ result = None /\ op = "create"
    /\ \E r \in Response :
          /\ Answers(Whole(IF post = "done" THEN 201 ELSE 403), r)
          /\ r \notin Bad => post # "sent"
          /\ IF Ambiguous(r) THEN Reconcile /\ UNCHANGED result
             ELSE /\ Finish(IF Good(r, 201) THEN "created" ELSE "error")
                  /\ UNCHANGED <<op, requests, post>>
    /\ UNCHANGED <<server, created>>

\* Mutant: a page without a link to the next one is the last.
MutMore(values, linked) == linked

\* "A full page without Link is not proof of EOF" (scripts/release_control.py:237).
More(values, linked) == linked \/ Len(values) = PageSize

\* One request for a page, which is not repeated.  The header may lack its link.
Readback ==
    /\ result = None /\ op = "readback"
    /\ requests' = requests + 1
    /\ \E r \in Response, linked \in {HasNext(page), FALSE} :
          LET values == Listed(page)
              repeated == Range(values) \cap Range(gathered) # {}
          IN  /\ IF linked = HasNext(page) THEN Answers(Whole(200), r)
                 ELSE r = Whole(200) /\ faults < MaxFaults /\ faults' = faults + 1
              /\ IF \/ ~Good(r, 200) \/ requests' > MaxRequests \/ repeated
                    \/ More(values, linked) /\ values = <<>>
                 THEN Finish("error")
                 ELSE /\ gathered' = gathered \o values
                      /\ IF More(values, linked) THEN page' = page + 1 /\ UNCHANGED result
                                                 ELSE result' = "list" /\ UNCHANGED page
                      /\ UNCHANGED <<attempt, history>>
    /\ UNCHANGED <<server, post, op, created>>
-------------------------------------------------------------------------------
\* Somebody else creates a release, or deletes one.
Others ==
    /\ \/ /\ made < MaxRecords
          /\ made' = made + 1
          /\ records' = <<made'>> \o records
          /\ ever' = ever \cup {made'}
          /\ UNCHANGED <<always, deleted>>
       \/ \E i \in DOMAIN records :
             /\ records' = RemoveAt(records, i)
             /\ always' = always \ {records[i]}
             /\ deleted' = TRUE
             /\ UNCHANGED <<made, ever>>
    /\ result = None
    /\ UNCHANGED <<post, call, created, faults>>

Next == (\E o \in Ops : Begin(o)) \/ Read \/ Serve \/ Create \/ Readback \/ Others

Spec == Init /\ [][Next]_vars
-------------------------------------------------------------------------------
Ids == 1..MaxRecords

TypeOK == /\ records \in Seq(Ids) /\ made \in 0..MaxRecords
          /\ post \in {"no", "sent", "done", "refused"}
          /\ op \in Ops /\ result \in Results \cup {None}
          /\ attempt \in 1..ReadAttempts /\ page \in Nat \ {0}
          /\ gathered \in Seq(Ids) /\ requests \in 0..MaxRequests + 1
          /\ always \subseteq ever /\ ever \subseteq Ids /\ deleted \in BOOLEAN
          /\ created \in Nat /\ faults \in 0..MaxFaults

\* "Return None only when GitHub explicitly reports a missing resource": whatever gh says
\* of failures, what is reported missing was missing during the attempt that counts.  A
\* list that changes while it is read has no record that was gone before that attempt,
\* and lacks none that was there throughout, unless one was deleted meanwhile; a readback
\* also has none twice.
ReadsSound ==
    /\ result = "absent" => Target \notin always
    /\ result = "list" => /\ Range(gathered) \subseteq ever
                          /\ deleted \/ always \subseteq Range(gathered)
                          /\ op = "readback" => IsInjective(gathered)

\* "never replay the POST" (scripts/release_control.py:419): a call creates at most one
\* release, however its response is lost and whenever the server gets to it.
CreatedOnce == created <= 1
===============================================================================
