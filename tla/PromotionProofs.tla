---------------------------- MODULE PromotionProofs ----------------------------
(***************************************************************************)
(* Proofs about Promotion, for every set of commits, packages, contents    *)
(* and manifests, and every bound on attempts and changes.                 *)
(***************************************************************************)
EXTENDS Promotion, TLAPS

Endings == {"running", "failed", "executed", "copied"}

(***************************************************************************)
(* Where the steps stand in the orders.                                    *)
(***************************************************************************)
Shape == /\ purpose \in {"promote", "accept", "reuse"}
         /\ at \in 1..(IF purpose = "promote" THEN 30 ELSE 15)
         /\ outcome = "running" => at <= (IF purpose = "promote" THEN 29 ELSE 14)

LEMMA Lengths == /\ DOMAIN Order = {"promote", "accept", "reuse"}
                 /\ Len(Order["promote"]) = 29
                 /\ Len(Order["accept"]) = 14
                 /\ Len(Order["reuse"]) = 14
BY DEF Order

\* The orders, position by position: the provers do not look into a long tuple.
LEMMA OrderPromote ==
    /\ Order["promote"][1] = "reviewers" /\ Order["promote"][2] = "ref"
    /\ Order["promote"][3] = "release" /\ Order["promote"][4] = "assets"
    /\ Order["promote"][5] = "manifest" /\ Order["promote"][6] = "policy"
    /\ Order["promote"][7] = "run" /\ Order["promote"][8] = "gate"
    /\ Order["promote"][9] = "ancestry" /\ Order["promote"][10] = "evidence"
    /\ Order["promote"][11] = "absent" /\ Order["promote"][12] = "inventory"
    /\ Order["promote"][13] = "head" /\ Order["promote"][14] = "head again"
    /\ Order["promote"][15] = "download" /\ Order["promote"][16] = "ref again"
    /\ Order["promote"][17] = "release again" /\ Order["promote"][18] = "assets again"
    /\ Order["promote"][19] = "run" /\ Order["promote"][20] = "gate"
    /\ Order["promote"][21] = "reviewers" /\ Order["promote"][22] = "head"
    /\ Order["promote"][23] = "head again" /\ Order["promote"][24] = "absent"
    /\ Order["promote"][25] = "head" /\ Order["promote"][26] = "head again"
    /\ Order["promote"][27] = "tag" /\ Order["promote"][28] = "draft"
    /\ Order["promote"][29] = "publish"
BY DEF Order

LEMMA OrderAccept ==
    /\ Order["accept"][1] = "ref" /\ Order["accept"][2] = "release"
    /\ Order["accept"][3] = "assets" /\ Order["accept"][4] = "manifest"
    /\ Order["accept"][5] = "policy" /\ Order["accept"][6] = "run"
    /\ Order["accept"][7] = "gate" /\ Order["accept"][8] = "ancestry"
    /\ Order["accept"][9] = "evidence" /\ Order["accept"][10] = "inventory"
    /\ Order["accept"][11] = "download" /\ Order["accept"][12] = "ref again"
    /\ Order["accept"][13] = "release again" /\ Order["accept"][14] = "assets again"
BY DEF Order

LEMMA OrderReuse ==
    /\ Order["reuse"][1] = "current" /\ Order["reuse"][2] = "ref"
    /\ Order["reuse"][3] = "release" /\ Order["reuse"][4] = "assets"
    /\ Order["reuse"][5] = "manifest" /\ Order["reuse"][6] = "policy"
    /\ Order["reuse"][7] = "inventory" /\ Order["reuse"][8] = "run"
    /\ Order["reuse"][9] = "gate" /\ Order["reuse"][10] = "evidence"
    /\ Order["reuse"][11] = "ref again" /\ Order["reuse"][12] = "release again"
    /\ Order["reuse"][13] = "assets again" /\ Order["reuse"][14] = "current"
BY DEF Order

LEMMA Upto14 == \A i \in 1..14 :
    \/ i = 1 \/ i = 2 \/ i = 3 \/ i = 4 \/ i = 5 \/ i = 6 \/ i = 7 \/ i = 8
    \/ i = 9 \/ i = 10 \/ i = 11 \/ i = 12 \/ i = 13 \/ i = 14
OBVIOUS
LEMMA Upto29 == \A i \in 1..29 :
    \/ i = 1 \/ i = 2 \/ i = 3 \/ i = 4 \/ i = 5 \/ i = 6 \/ i = 7 \/ i = 8
    \/ i = 9 \/ i = 10 \/ i = 11 \/ i = 12 \/ i = 13 \/ i = 14 \/ i = 15 \/ i = 16
    \/ i = 17 \/ i = 18 \/ i = 19 \/ i = 20 \/ i = 21 \/ i = 22 \/ i = 23 \/ i = 24
    \/ i = 25 \/ i = 26 \/ i = 27 \/ i = 28 \/ i = 29
OBVIOUS

\* Where a run is when it does a step.
LEMMA PromotePlaces ==
    ASSUME Shape, NEW step, Doing(step), purpose = "promote"
    PROVE  /\ step = "run" <=> at \in {7, 19}
           /\ step = "gate" <=> at \in {8, 20}
           /\ step = "tag" <=> at = 27
           /\ step = "draft" <=> at = 28
           /\ step = "publish" <=> at = 29
<1>1. at \in 1..29 /\ Order["promote"][at] = step
  BY DEF Shape, Doing
<1> QED BY <1>1, Upto29, OrderPromote

\* The position of a step in the order of each purpose.
Position(promote, accept, reuse) ==
    IF purpose = "promote" THEN promote ELSE IF purpose = "accept" THEN accept ELSE reuse
RefAt == Position(2, 1, 2)
ReleaseAt == Position(3, 2, 3)
AssetsAt == Position(4, 3, 4)
ManifestAt == Position(5, 4, 5)
PolicyAt == Position(6, 5, 6)
InventoryAt == Position(12, 10, 7)
EvidenceAt == Position(10, 9, 10)
DownloadAt == Position(15, 11, 0)   \* 0: never
RefAgainAt == Position(16, 12, 11)
ReleaseAgainAt == Position(17, 13, 12)
AssetsAgainAt == Position(18, 14, 13)

LEMMA Places ==
    ASSUME Shape, NEW step, Doing(step)
    PROVE  /\ step = "ref" <=> at = RefAt
           /\ step = "release" <=> at = ReleaseAt
           /\ step = "assets" <=> at = AssetsAt
           /\ step = "manifest" <=> at = ManifestAt
           /\ step = "policy" <=> at = PolicyAt
           /\ step = "inventory" <=> at = InventoryAt
           /\ step = "evidence" <=> at = EvidenceAt
           /\ step = "ref again" <=> at = RefAgainAt
           /\ step = "release again" <=> at = ReleaseAgainAt
           /\ step = "assets again" <=> at = AssetsAgainAt
           /\ step = "download" <=> at = DownloadAt
           /\ step \in {"tag", "draft", "publish"} <=> purpose = "promote" /\ at \in {27, 28, 29}
<1> USE DEF Position, RefAt, ReleaseAt, AssetsAt, ManifestAt, PolicyAt, InventoryAt,
            EvidenceAt, DownloadAt, RefAgainAt, ReleaseAgainAt, AssetsAgainAt
<1>1. CASE purpose = "promote"
  <2>1. at \in 1..29 /\ Order["promote"][at] = step
    BY <1>1 DEF Shape, Doing
  <2>2. /\ step = "ref" <=> at = RefAt
        /\ step = "release" <=> at = ReleaseAt
        /\ step = "assets" <=> at = AssetsAt
        /\ step = "manifest" <=> at = ManifestAt
    BY <1>1, <2>1, Upto29, OrderPromote
  <2>3. /\ step = "policy" <=> at = PolicyAt
        /\ step = "inventory" <=> at = InventoryAt
        /\ step = "evidence" <=> at = EvidenceAt
        /\ step = "ref again" <=> at = RefAgainAt
    BY <1>1, <2>1, Upto29, OrderPromote
  <2>4. /\ step = "release again" <=> at = ReleaseAgainAt
        /\ step = "assets again" <=> at = AssetsAgainAt
        /\ step = "download" <=> at = DownloadAt
    BY <1>1, <2>1, Upto29, OrderPromote
  <2>5. step \in {"tag", "draft", "publish"} <=> purpose = "promote" /\ at \in {27, 28, 29}
    BY <1>1, <2>1, Upto29, OrderPromote
  <2> QED BY <1>1, <2>2, <2>3, <2>4, <2>5
<1>2. CASE purpose = "accept"
  <2>1. at \in 1..14 /\ Order["accept"][at] = step
    BY <1>2 DEF Shape, Doing
  <2>2. /\ step = "ref" <=> at = RefAt
        /\ step = "release" <=> at = ReleaseAt
        /\ step = "assets" <=> at = AssetsAt
        /\ step = "manifest" <=> at = ManifestAt
    BY <1>2, <2>1, Upto14, OrderAccept
  <2>3. /\ step = "policy" <=> at = PolicyAt
        /\ step = "inventory" <=> at = InventoryAt
        /\ step = "evidence" <=> at = EvidenceAt
        /\ step = "ref again" <=> at = RefAgainAt
    BY <1>2, <2>1, Upto14, OrderAccept
  <2>4. /\ step = "release again" <=> at = ReleaseAgainAt
        /\ step = "assets again" <=> at = AssetsAgainAt
        /\ step = "download" <=> at = DownloadAt
    BY <1>2, <2>1, Upto14, OrderAccept
  <2>5. step \in {"tag", "draft", "publish"} <=> purpose = "promote" /\ at \in {27, 28, 29}
    BY <1>2, <2>1, Upto14, OrderAccept
  <2> QED BY <1>2, <2>2, <2>3, <2>4, <2>5
<1>3. CASE purpose = "reuse"
  <2>1. at \in 1..14 /\ Order["reuse"][at] = step
    BY <1>3 DEF Shape, Doing
  <2>2. /\ step = "ref" <=> at = RefAt
        /\ step = "release" <=> at = ReleaseAt
        /\ step = "assets" <=> at = AssetsAt
        /\ step = "manifest" <=> at = ManifestAt
    BY <1>3, <2>1, Upto14, OrderReuse
  <2>3. /\ step = "policy" <=> at = PolicyAt
        /\ step = "inventory" <=> at = InventoryAt
        /\ step = "evidence" <=> at = EvidenceAt
        /\ step = "ref again" <=> at = RefAgainAt
    BY <1>3, <2>1, Upto14, OrderReuse
  <2>4. /\ step = "release again" <=> at = ReleaseAgainAt
        /\ step = "assets again" <=> at = AssetsAgainAt
    BY <1>3, <2>1, Upto14, OrderReuse
  <2>6. step # "download"
    BY <2>1, Upto14, OrderReuse
  <2>7. at # DownloadAt
    BY <1>3, <2>1
  <2>5. step \in {"tag", "draft", "publish"} <=> purpose = "promote" /\ at \in {27, 28, 29}
    BY <1>3, <2>1, Upto14, OrderReuse
  <2> QED BY <1>3, <2>2, <2>3, <2>4, <2>5, <2>6, <2>7
<1> QED BY <1>1, <1>2, <1>3 DEF Shape

(***************************************************************************)
(* Types.                                                                  *)
(***************************************************************************)
ContentType == Bytes \cup ManifestType

LEMMA AssumedTypes ==
    /\ DOMAIN Built \in SUBSET Files \ {{}}
    /\ Built \in [DOMAIN Built -> Bytes]
    /\ Built \in UNION {[names -> Bytes] : names \in SUBSET Files \ {{}}}
<1>1. PICK names \in SUBSET Files \ {{}} : Built \in [names -> Bytes]
  BY PromotionAssumption
<1> QED BY <1>1, PromotionAssumption

LEMMA AcceptedType ==
    ASSUME NEW attempt \in 1..MaxAttempt, NEW files \in [DOMAIN Built -> Bytes]
    PROVE  /\ Accepted(attempt) \in ManifestType
           /\ [Accepted(attempt) EXCEPT !.files = files] \in ManifestType
<1>1. /\ Source \in Commits
      /\ Policy[Source] \in Policies
  BY PromotionAssumption
<1>2. files \in UNION {[names -> Bytes] : names \in SUBSET Files \ {{}}}
  BY AssumedTypes
<1> QED BY <1>1, <1>2, AssumedTypes DEF Accepted, ManifestType

LEMMA ManifestFields ==
    ASSUME NEW m \in ManifestType
    PROVE  /\ m.source \in Commits /\ m.attempt \in 1..MaxAttempt
           /\ m.attempt \in Nat
           /\ m.policy \in Policies
           /\ DOMAIN m.files \in SUBSET Files \ {{}}
           /\ m.files \in [DOMAIN m.files -> Bytes]
<1>1. /\ m.source \in Commits /\ m.attempt \in 1..MaxAttempt
      /\ m.policy \in Policies
      /\ m.files \in UNION {[names -> Bytes] : names \in SUBSET Files \ {{}}}
  BY DEF ManifestType
<1>2. PICK names \in SUBSET Files \ {{}} : m.files \in [names -> Bytes]
  BY <1>1
<1> QED BY <1>1, <1>2, PromotionAssumption

LEMMA UploadedType ==
    ASSUME NEW m \in ManifestType
    PROVE  Uploaded(m) \in [Names -> Asset \cup {None}]
<1>1. ASSUME NEW name \in Names
      PROVE  Uploaded(m)[name] \in Asset \cup {None}
  <2>1. CASE name = Manifest
    BY <2>1 DEF Uploaded, Names, Asset
  <2>2. CASE name # Manifest /\ name \in DOMAIN m.files
    <3>1. m.files[name] \in Bytes
      BY <2>2, ManifestFields
    <3> QED BY <2>2, <3>1 DEF Uploaded, Names, Asset
  <2>3. CASE name # Manifest /\ name \notin DOMAIN m.files
    BY <2>3 DEF Uploaded, Names
  <2> QED BY <2>1, <2>2, <2>3
<1> QED BY <1>1 DEF Uploaded

\* The types that are not about the progress of the run.
Types == /\ candidate \in Candidate
         /\ evidence \subseteq [manifest : ManifestType, expired : BOOLEAN]
         /\ attempts \in Seq(Endings)
         /\ Len(attempts) \in 1..MaxAttempt
         /\ head \in Commits /\ checkout \in Commits /\ reviewers \in BOOLEAN
         /\ stable \in [status : {"absent", "taken", "tag", "draft", "public"},
                        manifest : ManifestType \cup {None},
                        files : [Files -> Bytes \cup {None}]]
         /\ changes \in 0..MaxChanges
         /\ first \in Candidate /\ second \in Candidate
         /\ raw \in ManifestType \cup {None}
         /\ staged \in [Files -> Bytes \cup {None}]
         /\ headSeen \in Commits \cup {None}
         /\ witness \in Candidate \cup {None}
         /\ approval \in Seq(Endings)
         /\ outcome \in {"running", "refused", "done"}

\* Once the manifest is read, it is one.
RawRead == at > ManifestAt => raw \in ManifestType

TypeInv == Shape /\ Types /\ RawRead

LEMMA TypesGiveTypeOK == TypeInv => TypeOK
<1> SUFFICES ASSUME TypeInv PROVE TypeOK
  OBVIOUS
<1>1. purpose \in DOMAIN Order
  BY Lengths DEF TypeInv, Shape
<1>2. at \in 1..(Len(Order[purpose]) + 1)
  <2>1. Len(Order[purpose]) = IF purpose = "promote" THEN 29 ELSE 14
    BY Lengths DEF TypeInv, Shape
  <2> QED BY <2>1 DEF TypeInv, Shape
<1> QED BY <1>1, <1>2 DEF TypeInv, Types, TypeOK, Endings

(***************************************************************************)
(* How a step of the run moves.                                            *)
(***************************************************************************)
LEMMA Moves ==
    ASSUME Shape, outcome = "running", Proceed, purpose' = purpose
    PROVE  Shape' /\ at' = at + 1 /\ outcome' \in {"running", "done"}
<1>1. Len(Order[purpose]) = IF purpose = "promote" THEN 29 ELSE 14
  BY Lengths DEF Shape
<1> QED BY <1>1 DEF Shape, Proceed

LEMMA CheckMoves ==
    ASSUME Shape, NEW step, NEW holds \in BOOLEAN, Check(step, holds)
    PROVE  /\ Shape' /\ Doing(step) /\ purpose' = purpose /\ checkout' = checkout
           /\ \/ holds /\ at' = at + 1 /\ outcome' \in {"running", "done"}
              \/ ~holds /\ at' = at /\ outcome' = "refused"
<1>1. CASE holds /\ Proceed
  BY <1>1, Moves DEF Check, Doing
<1>2. CASE ~holds /\ at' = at /\ outcome' = "refused"
  BY <1>2 DEF Check, Shape
<1> QED BY <1>1, <1>2 DEF Check

LEMMA FetchedType ==
    ASSUME TypeInv, NEW name \in Names, Downloadable(name)
    PROVE  Fetched(name) \in Candidate
<1>1. candidate.assets[name] \in Asset
  BY DEF TypeInv, Types, Candidate, Downloadable
<1>2. [candidate.assets[name] EXCEPT !.downloads = @ + 1] \in Asset
  BY <1>1 DEF Asset
<1>3. candidate.assets \in [Names -> Asset \cup {None}]
  BY DEF TypeInv, Types, Candidate
<1>4. [candidate.assets EXCEPT ![name].downloads = @ + 1] \in [Names -> Asset \cup {None}]
  BY <1>2, <1>3
<1> QED BY <1>4 DEF TypeInv, Types, Candidate, Fetched

(***************************************************************************)
(* The types hold initially and are kept.                                  *)
(***************************************************************************)
LEMMA TypeInit == Init => TypeInv
<1> SUFFICES ASSUME Init PROVE TypeInv
  OBVIOUS
<1>1. PICK attempt \in 1..MaxAttempt :
        /\ evidence = {[manifest |-> Accepted(attempt), expired |-> FALSE]}
        /\ candidate = [ref |-> Source, public |-> TRUE, updated |-> 0,
                        assets |-> Uploaded(Accepted(attempt))]
        /\ \E ending \in {"executed"} \cup (IF attempt = 1 THEN {} ELSE {"copied"}) :
              attempts = [i \in 1..attempt |-> IF i = attempt THEN ending ELSE "failed"]
  BY DEF Init
<1>2. Accepted(attempt) \in ManifestType
  <2>1. Accepted(attempt) = [Accepted(attempt) EXCEPT !.files = Built]
    BY DEF Accepted
  <2> QED BY <2>1, AssumedTypes, AcceptedType
<1>3. candidate \in Candidate
  BY <1>1, <1>2, UploadedType, PromotionAssumption DEF Candidate
<1>4. Blank \in Candidate
  BY DEF Blank, Candidate
<1>5. attempts \in Seq(Endings) /\ Len(attempts) \in 1..MaxAttempt
  <2>1. PICK ending \in Endings :
          attempts = [i \in 1..attempt |-> IF i = attempt THEN ending ELSE "failed"]
    BY <1>1 DEF Endings
  <2>2. attempt \in Nat
    BY PromotionAssumption
  <2>3. attempts \in [1..attempt -> Endings]
    BY <2>1 DEF Endings
  <2> QED BY <2>2, <2>3, PromotionAssumption
<1>6. head \in Commits /\ checkout \in Commits
  BY DEF Init
<1>7. Types
  BY <1>1, <1>2, <1>3, <1>4, <1>5, <1>6, PromotionAssumption DEF Init, Types
<1>8. Shape /\ RawRead
  BY Lengths DEF Init, Shape, RawRead, ManifestAt, Position
<1> QED BY <1>7, <1>8 DEF TypeInv

\* An action that only asks.
LEMMA AskType ==
    ASSUME TypeInv, NEW step, NEW holds \in BOOLEAN, Ask(step, holds), step # "manifest"
    PROVE  TypeInv'
<1>1. Check(step, holds) /\ UNCHANGED <<github, collected>>
  BY DEF Ask
<1>2. Shape' /\ purpose' = purpose /\ checkout' = checkout
      /\ Doing(step) /\ at' \in {at, at + 1} /\ outcome' \in {"running", "done", "refused"}
  BY <1>1, CheckMoves DEF TypeInv
<1>3. Types'
  BY <1>1, <1>2 DEF TypeInv, Types, github, collected
<1>4. RawRead'
  <2>1. at # ManifestAt
    BY <1>2, Places DEF TypeInv
  <2> QED BY <1>1, <1>2, <2>1 DEF TypeInv, RawRead, collected, Shape, ManifestAt, Position
<1> QED BY <1>2, <1>3, <1>4 DEF TypeInv

\* A request that reads part of the candidate into a collection.
LEMMA CollectType ==
    ASSUME TypeInv, NEW step, NEW holds \in BOOLEAN, Check(step, holds), step # "manifest",
           UNCHANGED <<github, raw, staged>>,
           first' \in Candidate, second' \in Candidate, headSeen' \in Commits \cup {None},
           witness' \in Candidate \cup {None}, approval' \in Seq(Endings)
    PROVE  TypeInv'
<1>1. /\ Shape' /\ purpose' = purpose /\ checkout' = checkout
      /\ Doing(step) /\ at' \in {at, at + 1} /\ outcome' \in {"running", "done", "refused"}
  BY CheckMoves DEF TypeInv
<1>2. Types'
  BY <1>1 DEF TypeInv, Types, github
<1>3. RawRead'
  <2>1. at # ManifestAt
    BY <1>1, Places DEF TypeInv
  <2> QED BY <1>1, <2>1 DEF TypeInv, RawRead, Shape, ManifestAt, Position
<1> QED BY <1>1, <1>2, <1>3 DEF TypeInv

\* What happens around the run.
LEMMA WorldType ==
    ASSUME TypeInv, World
    PROVE  TypeInv'
<1> USE DEF TypeInv, Types, Local, collected
<1>1. /\ UNCHANGED Local /\ outcome' \in {outcome, "refused"}
      /\ changes' = changes + 1 /\ changes' \in 0..MaxChanges
  <2>1. /\ UNCHANGED Local /\ outcome' \in {outcome, "refused"}
        /\ changes < MaxChanges /\ changes' = changes + 1
    BY DEF World, Changing, RequestFails, EditRelease, Rerun, EditEnvironment, TakeStable,
           ReplaceAsset, MoveTag, MoveHead, FinishRerun, Expire
  <2> QED BY <2>1, PromotionAssumption
<1>2. Shape' /\ RawRead'
  BY <1>1 DEF Shape, RawRead, ManifestAt, Position
<1>3. ASSUME candidate' \in Candidate,
             evidence' \subseteq [manifest : ManifestType, expired : BOOLEAN],
             attempts' \in Seq(Endings), Len(attempts') \in 1..MaxAttempt,
             head' \in Commits, reviewers' \in BOOLEAN,
             stable' \in [status : {"absent", "taken", "tag", "draft", "public"},
                          manifest : ManifestType \cup {None},
                          files : [Files -> Bytes \cup {None}]]
      PROVE  TypeInv'
  BY <1>1, <1>2, <1>3
<1>4. CASE RequestFails
  BY <1>3, <1>4 DEF RequestFails
<1>5. CASE EditRelease
  <2>1. PICK public \in BOOLEAN :
          candidate' = [candidate EXCEPT !.public = public, !.updated = changes']
    BY <1>5 DEF EditRelease
  <2>2. changes' \in Nat
    BY <1>1, PromotionAssumption
  <2>3. candidate' \in Candidate
    BY <2>1, <2>2 DEF Candidate
  <2> QED BY <1>3, <1>5, <2>3 DEF EditRelease
<1>6. CASE Rerun
  <2>1. attempts' \in Seq(Endings) /\ Len(attempts') \in 1..MaxAttempt
    BY <1>6, PromotionAssumption DEF Rerun, Endings
  <2> QED BY <1>3, <1>6, <2>1 DEF Rerun
<1>7. CASE EditEnvironment
  BY <1>3, <1>7 DEF EditEnvironment
<1>8. CASE TakeStable
  BY <1>3, <1>8 DEF TakeStable
<1>9. ASSUME NEW name \in Names, ReplaceAsset(name)
      PROVE  TypeInv'
  <2>1. PICK asset \in {None} \cup [id : {changes'}, downloads : {0},
                                 content : IF name = Manifest THEN Manifests ELSE Bytes] :
          candidate' = [candidate EXCEPT !.assets[name] = asset]
    BY <1>9 DEF ReplaceAsset
  <2>2. asset \in Asset \cup {None}
    BY <1>1, <2>1, PromotionAssumption DEF Asset
  <2>3. candidate' \in Candidate
    BY <2>1, <2>2 DEF Candidate
  <2> QED BY <1>3, <1>9, <2>3 DEF ReplaceAsset
<1>10. ASSUME NEW commit \in Commits \cup {None}, MoveTag(commit)
       PROVE  TypeInv'
  <2>1. candidate' \in Candidate
    BY <1>10 DEF MoveTag, Candidate
  <2> QED BY <1>3, <1>10, <2>1 DEF MoveTag
<1>11. ASSUME NEW commit \in Commits, MoveHead(commit)
       PROVE  TypeInv'
  BY <1>3, <1>11 DEF MoveHead
<1>12. ASSUME NEW ending \in {"failed", "executed", "copied"}, FinishRerun(ending)
       PROVE  TypeInv'
  <2>1. attempts' \in Seq(Endings) /\ Len(attempts') = Len(attempts)
    BY <1>12 DEF FinishRerun, Endings
  <2>2. evidence' \subseteq [manifest : ManifestType, expired : BOOLEAN]
    <3>1. CASE ending = "failed"
      BY <1>12, <3>1 DEF FinishRerun
    <3>2. CASE ending # "failed"
      <4>1. PICK files \in [DOMAIN Built -> Bytes] :
              evidence' = evidence \cup
                   {[manifest |-> [Accepted(Len(attempts)) EXCEPT !.files = files],
                     expired |-> FALSE]}
        BY <1>12, <3>2 DEF FinishRerun
      <4>2. PICK manifest \in ManifestType :
              evidence' = evidence \cup {[manifest |-> manifest, expired |-> FALSE]}
        BY <4>1, AcceptedType
      <4>3. [manifest |-> manifest, expired |-> FALSE] \in [manifest : ManifestType, expired : BOOLEAN]
        OBVIOUS
      <4> QED BY <4>2, <4>3
    <3> QED BY <3>1, <3>2
  <2> QED BY <1>3, <1>12, <2>1, <2>2 DEF FinishRerun
<1>13. ASSUME NEW artifact \in Unexpired, Expire(artifact)
       PROVE  TypeInv'
  <2>2. artifact \in [manifest : ManifestType, expired : BOOLEAN]
    BY DEF Unexpired
  <2>3. [artifact EXCEPT !.expired = TRUE] \in [manifest : ManifestType, expired : BOOLEAN]
    BY <2>2
  <2>4. evidence' = (evidence \ {artifact}) \cup {[artifact EXCEPT !.expired = TRUE]}
    BY <1>13 DEF Expire
  <2>1. evidence' \subseteq [manifest : ManifestType, expired : BOOLEAN]
    BY <2>3, <2>4
  <2> QED BY <1>3, <1>13, <2>1 DEF Expire
<1> QED BY <1>4, <1>5, <1>6, <1>7, <1>8, <1>9, <1>10, <1>11, <1>12, <1>13 DEF World

LEMMA TypeStep == TypeInv /\ [Next]_vars => TypeInv'
<1> SUFFICES ASSUME TypeInv, [Next]_vars PROVE TypeInv'
  OBVIOUS
<1> USE DEF TypeInv, Types
<1>1. CASE Judge
  <2> USE <1>1
  <2>1. CASE RequireReviewers
    BY <2>1, AskType DEF RequireReviewers
  <2>2. CASE VerifyPolicy
    BY <2>2, AskType DEF VerifyPolicy, PolicyHolds
  <2>3. CASE ValidateRun
    BY <2>3, AskType DEF ValidateRun, RunStands
  <2>4. CASE ValidateGate
    BY <2>4, AskType DEF ValidateGate, GateStands
  <2>5. CASE CheckAncestry
    <3>1. (raw.source \in Ancestors[head]) \in BOOLEAN
      OBVIOUS
    <3> QED BY <2>5, <3>1, AskType DEF CheckAncestry
  <2>6. CASE VerifyEvidence
    BY <2>6, CollectType DEF VerifyEvidence
  <2>7. CASE EnsureAbsent
    BY <2>7, AskType DEF EnsureAbsent
  <2>8. CASE CheckInventory
    BY <2>8, AskType DEF CheckInventory, InventoryHolds
  <2>9. CASE ReadHead
    BY <2>9, CollectType DEF ReadHead
  <2>10. CASE ConfirmHead
    BY <2>10, AskType DEF ConfirmHead
  <2>11. CASE Current
    BY <2>11, AskType DEF Current
  <2> QED BY <2>1, <2>2, <2>3, <2>4, <2>5, <2>6, <2>7, <2>8, <2>9, <2>10, <2>11 DEF Judge
<1>2. CASE ReadRef
  <2>1. first' \in Candidate
    BY <1>2 DEF ReadRef, Candidate
  <2> QED BY <1>2, <2>1, CollectType DEF ReadRef
<1>3. CASE ReadRelease
  <2>1. first' \in Candidate
    BY <1>3 DEF ReadRelease, Candidate
  <2>2. candidate.public \in BOOLEAN
    BY DEF Candidate
  <2> QED BY <1>3, <2>1, <2>2, CollectType DEF ReadRelease
<1>4. CASE ReadAssets
  <2>1. first' \in Candidate
    BY <1>4 DEF ReadAssets, Candidate
  <2> QED BY <1>4, <2>1, CollectType DEF ReadAssets
<1>5. CASE ReadRefAgain
  <2>1. second' \in Candidate
    BY <1>5 DEF ReadRefAgain, Candidate
  <2> QED BY <1>5, <2>1, CollectType DEF ReadRefAgain
<1>6. CASE ReadReleaseAgain
  <2>1. second' \in Candidate
    BY <1>6 DEF ReadReleaseAgain, Candidate
  <2>2. candidate.public \in BOOLEAN
    BY DEF Candidate
  <2> QED BY <1>6, <2>1, <2>2, CollectType DEF ReadReleaseAgain
<1>7. CASE ReadAssetsAgain
  <2>1. second' \in Candidate
    BY <1>7 DEF ReadAssetsAgain, Candidate
  <2>2. (Identity(second') = Identity(first)) \in BOOLEAN
    OBVIOUS
  <2> QED BY <1>7, <2>1, <2>2, CollectType DEF ReadAssetsAgain
<1>8. CASE ReadManifest
  <2>1. PICK holds \in BOOLEAN :
          /\ holds = (Downloadable(Manifest) /\ first.assets[Manifest].content \in ManifestType)
          /\ Check("manifest", holds)
    BY <1>8 DEF ReadManifest
  <2>2. /\ Shape' /\ purpose' = purpose /\ checkout' = checkout
        /\ \/ holds /\ at' = at + 1 /\ outcome' \in {"running", "done"}
           \/ ~holds /\ at' = at /\ outcome' = "refused"
    BY <2>1, CheckMoves
  <2>3. CASE outcome' = "refused"
    <3>1. UNCHANGED <<candidate, raw, at>>
      BY <1>8, <2>2, <2>3 DEF ReadManifest
    <3> QED BY <1>8, <2>2, <2>3, <3>1 DEF ReadManifest, RawRead, ManifestAt, Position
  <2>4. CASE outcome' # "refused"
    <3>1. Downloadable(Manifest) /\ first.assets[Manifest].content \in ManifestType
      BY <2>1, <2>2, <2>4
    <3>2. candidate' \in Candidate
      BY <1>8, <2>4, <3>1, FetchedType DEF ReadManifest, Names
    <3>3. raw' \in ManifestType
      BY <1>8, <2>4, <3>1 DEF ReadManifest
    <3> QED BY <1>8, <2>2, <2>4, <3>2, <3>3 DEF ReadManifest, RawRead
  <2> QED BY <2>3, <2>4
<1>9. ASSUME NEW f \in Files, Download(f)
      PROVE  TypeInv'
  <2>1. at = DownloadAt /\ at # ManifestAt /\ Doing("download")
    BY <1>9, Places DEF Download, DownloadAt, ManifestAt, Position, Shape
  <2>2. /\ Shape' /\ at' \in {at, at + 1} /\ outcome' \in {"running", "done", "refused"}
        /\ purpose' = purpose
    BY <1>9, <2>1, Moves DEF Download, Doing, Shape
  <2>3. RawRead'
    BY <1>9, <2>1, <2>2 DEF Download, RawRead, ManifestAt, Position, Shape
  <2>4. candidate' \in Candidate /\ staged' \in [Files -> Bytes \cup {None}]
    <3>1. CASE Downloadable(f) /\ first.assets[f].content = raw.files[f]
      <4>1. raw \in ManifestType
        BY <2>1 DEF RawRead, DownloadAt, ManifestAt, Position, Shape
      <4>2. raw.files[f] \in Bytes
        BY <1>9, <4>1, ManifestFields DEF Download, Missing
      <4>3. candidate' \in Candidate
        BY <1>9, <3>1, FetchedType DEF Download, Names
      <4> QED BY <1>9, <3>1, <4>2, <4>3 DEF Download
    <3>2. CASE ~(Downloadable(f) /\ first.assets[f].content = raw.files[f])
      BY <1>9, <3>2 DEF Download
    <3> QED BY <3>1, <3>2
  <2> QED BY <1>9, <2>2, <2>3, <2>4 DEF Download
<1>10. ASSUME NEW step \in {"tag", "draft", "publish"}, NEW holds \in BOOLEAN,
              Check(step, holds),
              UNCHANGED <<candidate, evidence, attempts, head, reviewers, changes, collected>>,
              stable' \in [status : {"absent", "taken", "tag", "draft", "public"},
                           manifest : ManifestType \cup {None},
                           files : [Files -> Bytes \cup {None}]]
       PROVE  TypeInv'
  <2>1. /\ Shape' /\ at' \in {at, at + 1} /\ outcome' \in {"running", "done", "refused"}
        /\ purpose' = purpose /\ checkout' = checkout /\ Doing(step)
    BY <1>10, CheckMoves
  <2>2. purpose = "promote" /\ at \in {27, 28, 29}
    BY <1>10, <2>1, Places
  <2> QED BY <1>10, <2>1, <2>2 DEF collected, RawRead, ManifestAt, Position, Shape
<1>11. CASE CreateTag
  <2>1. stable' \in [status : {"absent", "taken", "tag", "draft", "public"},
                     manifest : ManifestType \cup {None}, files : [Files -> Bytes \cup {None}]]
    BY <1>11 DEF CreateTag
  <2> QED BY <1>10, <1>11, <2>1 DEF CreateTag
<1>12. CASE CreateDraft
  BY <1>10, <1>12 DEF CreateDraft
<1>13. CASE Publish
  BY <1>10, <1>13 DEF Publish
<1>14. CASE World
  BY <1>14, WorldType
<1>15. CASE UNCHANGED vars
  BY <1>15 DEF vars, github, collected, Shape, RawRead, ManifestAt, Position
<1> QED BY <1>1, <1>2, <1>3, <1>4, <1>5, <1>6, <1>7, <1>8, <1>9, <1>11, <1>12, <1>13, <1>14, <1>15
        DEF Next, Verify, Collect

\* The types hold: the run is at one of its steps, and what it collected is of the kind
\* that the code's schema checks leave.
THEOREM PromotionTyped == Spec => []TypeOK
<1>1. Spec => []TypeInv
  BY TypeInit, TypeStep, PTL DEF Spec
<1> QED BY <1>1, TypesGiveTypeOK, PTL

(***************************************************************************)
(* The evidence stands for the latest attempt.                             *)
(***************************************************************************)
\* Attempts are only added, and one that was executed stays so.
LEMMA AttemptsGrow ==
    ASSUME TypeInv, [Next]_vars
    PROVE  /\ Len(attempts') >= Len(attempts)
           /\ \A i \in 1..Len(attempts) :
                 attempts[i] = "executed" => attempts'[i] = "executed"
<1>1. CASE UNCHANGED attempts
  BY <1>1 DEF TypeInv, Types
<1>2. CASE Rerun
  BY <1>2 DEF Rerun, TypeInv, Types
<1>3. ASSUME NEW ending \in {"failed", "executed", "copied"}, FinishRerun(ending)
      PROVE  /\ Len(attempts') >= Len(attempts)
             /\ \A i \in 1..Len(attempts) :
                   attempts[i] = "executed" => attempts'[i] = "executed"
  BY <1>3 DEF FinishRerun, TypeInv, Types
<1>4. UNCHANGED attempts \/ Rerun \/ \E ending \in {"failed", "executed", "copied"} :
                                       FinishRerun(ending)
  <2>1. Judge => UNCHANGED attempts
    BY DEF Judge, RequireReviewers, VerifyPolicy, ValidateRun, ValidateGate, CheckAncestry,
           VerifyEvidence, EnsureAbsent, CheckInventory, ReadHead, ConfirmHead, Current, Ask,
           github
  <2>2. Collect => UNCHANGED attempts
    BY DEF Collect, ReadRef, ReadRelease, ReadAssets, ReadManifest, ReadRefAgain,
           ReadReleaseAgain, ReadAssetsAgain, Download, github
  <2>3. CreateTag \/ CreateDraft \/ Publish \/ UNCHANGED vars => UNCHANGED attempts
    BY DEF CreateTag, CreateDraft, Publish, vars, github
  <2>4. World => UNCHANGED attempts \/ Rerun
                 \/ \E ending \in {"failed", "executed", "copied"} : FinishRerun(ending)
    BY DEF World, RequestFails, EditRelease, EditEnvironment, TakeStable,
           ReplaceAsset, MoveTag, MoveHead, Expire
  <2> QED BY <2>1, <2>2, <2>3, <2>4 DEF Next, Verify
<1> QED BY <1>1, <1>2, <1>3, <1>4

\* What a step of a promotion does to the evidence it holds.
EvidenceMove ==
    /\ purpose' = "promote"
    /\ at' = at \/ at' = at + 1
    /\ raw' = raw \/ at = 5
    /\ approval' = approval \/ at = 10
    /\ at' = at + 1 => /\ at = 7 \/ at = 19 => RunStands
                       /\ at = 8 => GateStands
                       /\ at = 10 => approval' = attempts

LEMMA EvidenceMoves ==
    ASSUME TypeInv, purpose = "promote", [Next]_vars
    PROVE  EvidenceMove
<1> USE DEF TypeInv
<1>1. ASSUME NEW step, NEW holds \in BOOLEAN, Check(step, holds),
             raw' = raw, approval' = approval,
             step = "run" => holds = RunStands, step = "gate" => holds = GateStands,
             step # "evidence"
      PROVE  EvidenceMove
  <2>1. /\ Doing(step) /\ purpose' = purpose
        /\ \/ holds /\ at' = at + 1
           \/ ~holds /\ at' = at
    BY <1>1, CheckMoves
  <2>2. /\ at = 7 \/ at = 19 => step = "run"
        /\ at = 8 => step = "gate"
    BY <2>1, PromotePlaces
  <2>3. at # 10
    BY <1>1, <2>1, Places DEF EvidenceAt, Position
  <2>4. at \in Nat
    BY DEF Shape
  <2> QED BY <1>1, <2>1, <2>2, <2>3, <2>4 DEF EvidenceMove
<1>2. ASSUME NEW step, NEW holds \in BOOLEAN, Ask(step, holds),
             step = "run" => holds = RunStands, step = "gate" => holds = GateStands,
             step # "evidence"
      PROVE  EvidenceMove
  BY <1>1, <1>2 DEF Ask, collected
<1>3. CASE Judge
  <2>1. CASE RequireReviewers
    BY <1>2, <2>1 DEF RequireReviewers, Types
  <2>2. CASE VerifyPolicy
    BY <1>2, <2>2 DEF VerifyPolicy, PolicyHolds
  <2>3. CASE ValidateRun
    BY <1>2, <2>3 DEF ValidateRun, RunStands
  <2>4. CASE ValidateGate
    BY <1>2, <2>4 DEF ValidateGate, GateStands
  <2>5. CASE CheckAncestry
    <3>1. (raw.source \in Ancestors[head]) \in BOOLEAN
      OBVIOUS
    <3> QED BY <1>2, <2>5, <3>1 DEF CheckAncestry
  <2>6. CASE VerifyEvidence
    <3>1. /\ Doing("evidence") /\ purpose' = purpose /\ (at' = at \/ at' = at + 1)
          /\ raw' = raw /\ approval' = attempts
      BY <2>6, CheckMoves DEF VerifyEvidence
    <3>2. at = 10
      BY <3>1, Places DEF EvidenceAt, Position
    <3> QED BY <3>1, <3>2 DEF EvidenceMove
  <2>7. CASE EnsureAbsent
    BY <1>2, <2>7 DEF EnsureAbsent
  <2>8. CASE CheckInventory
    BY <1>2, <2>8 DEF CheckInventory, InventoryHolds
  <2>9. CASE ReadHead
    BY <1>1, <2>9 DEF ReadHead
  <2>10. CASE ConfirmHead
    BY <1>2, <2>10 DEF ConfirmHead
  <2>11. CASE Current
    BY <1>2, <2>11 DEF Current
  <2> QED BY <1>3, <2>1, <2>2, <2>3, <2>4, <2>5, <2>6, <2>7, <2>8, <2>9, <2>10, <2>11 DEF Judge
<1>4. CASE ReadRef
  BY <1>1, <1>4 DEF ReadRef
<1>5. CASE ReadRelease
  <2>1. candidate.public \in BOOLEAN
    BY DEF Types, Candidate
  <2> QED BY <1>1, <1>5, <2>1 DEF ReadRelease
<1>6. CASE ReadAssets
  BY <1>1, <1>6 DEF ReadAssets
<1>7. CASE ReadManifest
  <2>1. PICK holds \in BOOLEAN : Check("manifest", holds)
    BY <1>7 DEF ReadManifest
  <2>2. Doing("manifest") /\ purpose' = purpose /\ (at' = at \/ at' = at + 1)
    BY <2>1, CheckMoves
  <2>3. at = 5
    BY <2>2, Places DEF ManifestAt, Position
  <2> QED BY <1>7, <2>2, <2>3 DEF ReadManifest, EvidenceMove
<1>8. CASE ReadRefAgain
  BY <1>1, <1>8 DEF ReadRefAgain
<1>9. CASE ReadReleaseAgain
  <2>1. candidate.public \in BOOLEAN
    BY DEF Types, Candidate
  <2> QED BY <1>1, <1>9, <2>1 DEF ReadReleaseAgain
<1>10. CASE ReadAssetsAgain
  <2>1. (Identity(second') = Identity(first)) \in BOOLEAN
    OBVIOUS
  <2> QED BY <1>1, <1>10, <2>1 DEF ReadAssetsAgain
<1>11. ASSUME NEW f \in Files, Download(f)
       PROVE  EvidenceMove
  <2>1. Doing("download") /\ (at' = at \/ at' = at + 1) /\ UNCHANGED <<purpose, raw, approval>>
    BY <1>11 DEF Download, Proceed
  <2>2. at = 15
    BY <2>1, Places DEF DownloadAt, Position
  <2> QED BY <2>1, <2>2 DEF EvidenceMove
<1>12. CASE CreateTag
  BY <1>1, <1>12 DEF CreateTag, collected
<1>13. CASE CreateDraft
  BY <1>1, <1>13 DEF CreateDraft, collected
<1>14. CASE Publish
  BY <1>1, <1>14 DEF Publish, collected
<1>15. CASE World \/ UNCHANGED vars
  <2>1. UNCHANGED <<purpose, at, raw, approval>>
    BY <1>15 DEF World, RequestFails, EditRelease, Rerun, EditEnvironment, TakeStable,
           ReplaceAsset, MoveTag, MoveHead, FinishRerun, Expire, Local, collected, vars
  <2>2. at # at + 1
    BY DEF Shape
  <2> QED BY <2>1, <2>2 DEF EvidenceMove
<1> QED BY <1>3, <1>4, <1>5, <1>6, <1>7, <1>8, <1>9, <1>10, <1>11, <1>12, <1>13, <1>14, <1>15
        DEF Next, Verify, Collect

\* After the first check of the run its attempt exists, after the first check of the gates
\* it was executed, and so it had been when the evidence was read; after the second check
\* of the run no attempt had followed it.
EvidenceInv ==
    purpose = "promote" =>
        /\ at > 7 => raw.attempt \in 1..Len(attempts)
        /\ at > 8 => attempts[raw.attempt] = "executed"
        /\ at > 10 => /\ raw.attempt \in 1..Len(approval) /\ Len(approval) <= Len(attempts)
                      /\ approval[raw.attempt] = "executed"
        /\ at > 19 => Len(approval) = raw.attempt

LEMMA EvidenceStep == TypeInv /\ EvidenceInv /\ [Next]_vars => EvidenceInv'
<1> SUFFICES ASSUME TypeInv, EvidenceInv, [Next]_vars, purpose' = "promote"
             PROVE  EvidenceInv'
  BY DEF EvidenceInv
<1>1. purpose = "promote"
  BY DEF Next, Verify, Collect, Judge, RequireReviewers, VerifyPolicy, ValidateRun, ValidateGate,
         CheckAncestry, VerifyEvidence, EnsureAbsent, CheckInventory, ReadHead, ConfirmHead,
         Current, Ask, Check, ReadRef, ReadRelease, ReadAssets, ReadManifest, ReadRefAgain,
         ReadReleaseAgain, ReadAssetsAgain, Download, CreateTag, CreateDraft, Publish, World,
         RequestFails, EditRelease, Rerun, EditEnvironment, TakeStable, ReplaceAsset, MoveTag,
         MoveHead, FinishRerun, Expire, Local, vars
<1>2. EvidenceMove
  BY <1>1, EvidenceMoves
<1>3. /\ Len(attempts') >= Len(attempts)
      /\ \A i \in 1..Len(attempts) : attempts[i] = "executed" => attempts'[i] = "executed"
  BY AttemptsGrow
<1>4. /\ at \in 1..30 /\ Len(attempts) \in Nat /\ Len(approval) \in Nat
      /\ Len(attempts') \in Nat
  <2>1. TypeInv'
    BY TypeStep
  <2> QED BY <1>1, <2>1 DEF TypeInv, Shape, Types
<1>10. at' \in Nat /\ (at' = at \/ at' = at + 1)
  BY <1>2, <1>4 DEF EvidenceMove
<1>5. at > 5 => raw' = raw /\ raw.attempt \in 1..MaxAttempt
  BY <1>1, <1>2, ManifestFields DEF EvidenceMove, TypeInv, RawRead, ManifestAt, Position
<1>6. at' > 7 => raw' = raw /\ raw.attempt \in 1..Len(attempts)
  <2>1. SUFFICES ASSUME at' > 7 PROVE raw' = raw /\ raw.attempt \in 1..Len(attempts)
    OBVIOUS
  <2>2. raw' = raw /\ raw.attempt \in 1..MaxAttempt
    BY <1>4, <1>5, <1>10, <2>1
  <2>3. CASE at > 7
    BY <1>1, <2>2, <2>3 DEF EvidenceInv
  <2>4. CASE ~(at > 7)
    <3>1. at = 7 /\ at' = at + 1
      BY <1>4, <1>10, <2>1, <2>4
    <3>2. Len(attempts) = raw.attempt
      BY <1>2, <3>1 DEF EvidenceMove, RunStands
    <3> QED BY <1>4, <2>2, <3>2, PromotionAssumption
  <2> QED BY <2>3, <2>4
<1>7. at' > 8 => attempts[raw.attempt] = "executed"
  <2> SUFFICES ASSUME at' > 8 PROVE attempts[raw.attempt] = "executed"
    OBVIOUS
  <2>1. CASE at > 8
    BY <1>1, <2>1 DEF EvidenceInv
  <2>2. CASE ~(at > 8)
    <3>1. at = 8 /\ at' = at + 1
      BY <1>4, <1>10, <2>2
    <3> QED BY <1>1, <1>2, <3>1 DEF EvidenceMove, GateStands
  <2> QED BY <2>1, <2>2
<1>8. at' > 10 => /\ raw.attempt \in 1..Len(approval') /\ Len(approval') <= Len(attempts)
                  /\ approval'[raw.attempt] = "executed"
  <2> SUFFICES ASSUME at' > 10
               PROVE  /\ raw.attempt \in 1..Len(approval') /\ Len(approval') <= Len(attempts)
                      /\ approval'[raw.attempt] = "executed"
    OBVIOUS
  <2>1. CASE at > 10
    <3>1. approval' = approval
      BY <1>2, <2>1, <1>4 DEF EvidenceMove
    <3> QED BY <1>1, <2>1, <3>1 DEF EvidenceInv
  <2>2. CASE ~(at > 10)
    <3>1. at = 10 /\ at' = at + 1
      BY <1>4, <1>10, <2>2
    <3>2. approval' = attempts
      BY <1>2, <3>1 DEF EvidenceMove
    <3>3. at' > 7 /\ at' > 8
      BY <3>1
    <3> QED BY <1>4, <1>6, <1>7, <3>2, <3>3
  <2> QED BY <2>1, <2>2
<1>9. at' > 19 => Len(approval') = raw.attempt
  <2> SUFFICES ASSUME at' > 19 PROVE Len(approval') = raw.attempt
    OBVIOUS
  <2>1. CASE at > 19
    BY <1>1, <1>2, <2>1 DEF EvidenceInv, EvidenceMove
  <2>2. CASE ~(at > 19)
    <3>1. at = 19 /\ at' = at + 1
      BY <1>4, <1>10, <2>2
    <3>2. RunStands
      BY <1>2, <3>1 DEF EvidenceMove
    <3>3. at' > 10
      BY <3>1
    <3> QED BY <1>4, <1>8, <3>2, <3>3 DEF RunStands, EvidenceMove
  <2> QED BY <2>1, <2>2
<1> QED BY <1>3, <1>4, <1>6, <1>7, <1>8, <1>9, <1>10 DEF EvidenceInv

\* A promotion holds the bytes that every gate of the latest attempt accepted: nobody had
\* rerun the candidate's run when its evidence was read.
THEOREM EvidenceIsOfLatestAttempt == Spec => []EvidenceOfLatestAttempt
<1>1. Init => TypeInv /\ EvidenceInv
  <2>1. Init => EvidenceInv
    BY DEF Init, EvidenceInv
  <2> QED BY <2>1, TypeInit
<1>2. TypeInv /\ EvidenceInv /\ [Next]_vars => (TypeInv /\ EvidenceInv)'
  BY TypeStep, EvidenceStep
<1>3. TypeInv /\ EvidenceInv => EvidenceOfLatestAttempt
  <2> SUFFICES ASSUME TypeInv, EvidenceInv, purpose = "promote", Past("tag")
               PROVE  Len(approval) = raw.attempt /\ approval[raw.attempt] = "executed"
    BY DEF EvidenceOfLatestAttempt
  <2>1. PICK i \in 1..(at - 1) : Order["promote"][i] = "tag"
    BY DEF Past
  <2>2. at \in 1..30
    BY DEF TypeInv, Shape
  <2>3. i \in 1..29
    BY <2>1, <2>2
  <2>4. i = 27
    BY <2>1, <2>3, Upto29, OrderPromote
  <2>5. at > 19
    BY <2>1, <2>2, <2>4
  <2>6. at > 10
    BY <2>2, <2>5
  <2> QED BY <2>5, <2>6 DEF EvidenceInv
<1> QED BY <1>1, <1>2, <1>3, PTL DEF Spec

(***************************************************************************)
(* The stable release is what the evidence binds.                          *)
(***************************************************************************)
Out == stable.status \in {"draft", "public"}

\* The evidence read binds the manifest; a staged package is the manifest's; after the
\* download all of them are; a release exists from the draft on and holds both.
BytesInv ==
    /\ Out => purpose = "promote" /\ at > 28
    /\ at > EvidenceAt => \E artifact \in evidence : artifact.manifest = raw
    /\ \A f \in Files : staged[f] # None =>
          at > ManifestAt /\ f \in DOMAIN raw.files /\ staged[f] = raw.files[f]
    /\ purpose # "reuse" /\ at > DownloadAt => \A f \in DOMAIN raw.files : staged[f] # None
    /\ purpose = "promote" /\ at > 28 => stable.manifest = raw /\ stable.files = staged

\* A step that neither reads the manifest or the evidence, nor downloads, nor drafts.
LEMMA CalmBytes ==
    ASSUME TypeInv, BytesInv, purpose' = purpose, at' = at \/ at' = at + 1,
           at' = at + 1 => at # EvidenceAt /\ at # 28 /\ at # DownloadAt,
           UNCHANGED <<raw, staged>>,
           \A artifact \in evidence : \E kept \in evidence' : kept.manifest = artifact.manifest,
           stable'.manifest = stable.manifest, stable'.files = stable.files,
           Out' => Out \/ (purpose = "promote" /\ at' > 28)
    PROVE  BytesInv'
<1>1. at \in Nat
  BY DEF TypeInv, Shape
<1>2. Out' => purpose' = "promote" /\ at' > 28
  BY <1>1 DEF BytesInv
<1>3. at' > EvidenceAt' => \E artifact \in evidence' : artifact.manifest = raw'
  <2>1. EvidenceAt' = EvidenceAt /\ EvidenceAt \in Nat
    BY DEF EvidenceAt, Position
  <2>2. at' > EvidenceAt => at > EvidenceAt
    BY <1>1, <2>1
  <2> QED BY <2>1, <2>2 DEF BytesInv
<1>4. ASSUME NEW f \in Files, staged'[f] # None
      PROVE  at' > ManifestAt' /\ f \in DOMAIN raw'.files /\ staged'[f] = raw'.files[f]
  <2>1. ManifestAt' = ManifestAt /\ ManifestAt \in Nat
    BY DEF ManifestAt, Position
  <2>2. at > ManifestAt /\ f \in DOMAIN raw.files /\ staged[f] = raw.files[f]
    BY <1>4 DEF BytesInv
  <2> QED BY <1>1, <2>1, <2>2
<1>5. purpose' # "reuse" /\ at' > DownloadAt' => \A f \in DOMAIN raw'.files : staged'[f] # None
  <2>1. DownloadAt' = DownloadAt /\ DownloadAt \in Nat
    BY DEF DownloadAt, Position
  <2>2. at' > DownloadAt => at > DownloadAt
    BY <1>1, <2>1
  <2> QED BY <2>1, <2>2 DEF BytesInv
<1>6. purpose' = "promote" /\ at' > 28 => stable'.manifest = raw' /\ stable'.files = staged'
  <2>1. purpose = "promote" /\ at' > 28 => at > 28
    BY <1>1
  <2> QED BY <2>1 DEF BytesInv
<1> QED BY <1>2, <1>3, <1>4, <1>5, <1>6 DEF BytesInv

LEMMA BytesStep == TypeInv /\ BytesInv /\ [Next]_vars => BytesInv'
<1> SUFFICES ASSUME TypeInv, BytesInv, [Next]_vars PROVE BytesInv'
  OBVIOUS
<1>a. at \in Nat /\ Shape
  BY DEF TypeInv, Shape
<1>1. ASSUME NEW step, NEW holds \in BOOLEAN, Check(step, holds),
             UNCHANGED <<raw, staged, evidence>>,
             stable'.manifest = stable.manifest, stable'.files = stable.files,
             Out' => Out \/ step = "publish",
             step \notin {"manifest", "evidence", "download", "draft"}
      PROVE  BytesInv'
  <2>1. /\ Doing(step) /\ purpose' = purpose
        /\ at' = at \/ at' = at + 1
    BY <1>1, CheckMoves DEF TypeInv
  <2>2. at # EvidenceAt /\ at # ManifestAt /\ at # DownloadAt
    BY <1>1, <1>a, <2>1, Places
  <2>3. purpose = "promote" => at # 28
    BY <1>1, <1>a, <2>1, PromotePlaces
  <2>4. at # 28
    BY <2>3, <1>a DEF Shape
  <2>5. step = "publish" => purpose = "promote" /\ at = 29
    BY <1>a, <2>1, Places, PromotePlaces
  <2>6. Out' => Out \/ (purpose = "promote" /\ at' > 28)
    BY <1>1, <1>a, <2>1, <2>5
  <2>7. \A artifact \in evidence : \E kept \in evidence' : kept.manifest = artifact.manifest
    BY <1>1
  <2> QED BY <1>1, <2>1, <2>2, <2>3, <2>4, <2>6, <2>7, CalmBytes
<1>2. ASSUME NEW step, NEW holds \in BOOLEAN, Check(step, holds),
             UNCHANGED <<raw, staged, evidence, stable>>,
             step \notin {"manifest", "evidence", "download", "draft"}
      PROVE  BytesInv'
  BY <1>1, <1>2 DEF Out
<1>3. ASSUME NEW step, NEW holds \in BOOLEAN, Ask(step, holds),
             step \notin {"manifest", "evidence", "download", "draft"}
      PROVE  BytesInv'
  BY <1>2, <1>3 DEF Ask, collected, github
<1>4. CASE Judge
  <2>1. CASE RequireReviewers
    BY <1>3, <2>1 DEF RequireReviewers, TypeInv, Types
  <2>2. CASE VerifyPolicy
    BY <1>3, <2>2 DEF VerifyPolicy, PolicyHolds
  <2>3. CASE ValidateRun
    BY <1>3, <2>3 DEF ValidateRun, RunStands
  <2>4. CASE ValidateGate
    BY <1>3, <2>4 DEF ValidateGate, GateStands
  <2>5. CASE CheckAncestry
    <3>1. (raw.source \in Ancestors[head]) \in BOOLEAN
      OBVIOUS
    <3> QED BY <1>3, <2>5, <3>1 DEF CheckAncestry
  <2>6. CASE VerifyEvidence
    <3>1. PICK holds \in BOOLEAN :
            /\ holds = (Unexpired = {[manifest |-> raw, expired |-> FALSE]})
            /\ Check("evidence", holds)
      BY <2>6 DEF VerifyEvidence
    <3>2. /\ Doing("evidence") /\ purpose' = purpose
          /\ (holds /\ at' = at + 1) \/ (~holds /\ at' = at)
      BY <3>1, CheckMoves DEF TypeInv
    <3>3. at = EvidenceAt
      BY <1>a, <3>2, Places
    <3>4. UNCHANGED <<raw, staged, evidence, stable>>
      BY <2>6 DEF VerifyEvidence, github
    <3>5. CASE at' = at
      BY <3>2, <3>4, <3>5, CalmBytes, <1>a DEF Out
    <3>6. CASE at' # at
      <4>1. holds /\ at' = at + 1
        BY <3>2, <3>6
      <4>2. \E artifact \in evidence : artifact.manifest = raw
        <5>1. [manifest |-> raw, expired |-> FALSE] \in evidence
          BY <3>1, <4>1 DEF Unexpired
        <5> QED BY <5>1
      <4>3. /\ purpose = "promote" => at = 10
            /\ EvidenceAt' = EvidenceAt /\ EvidenceAt \in 9..10
            /\ ManifestAt' = ManifestAt /\ ManifestAt \in Nat
            /\ DownloadAt' = DownloadAt /\ (purpose # "reuse" => DownloadAt \in 11..15)
        BY <1>a, <3>2, <3>3 DEF EvidenceAt, DownloadAt, ManifestAt, Position, Shape
      <4> QED BY <1>a, <3>2, <3>3, <3>4, <4>1, <4>2, <4>3 DEF BytesInv, Out
    <3> QED BY <3>5, <3>6
  <2>7. CASE EnsureAbsent
    BY <1>3, <2>7 DEF EnsureAbsent
  <2>8. CASE CheckInventory
    BY <1>3, <2>8 DEF CheckInventory, InventoryHolds
  <2>9. CASE ReadHead
    BY <1>2, <2>9 DEF ReadHead, github
  <2>10. CASE ConfirmHead
    BY <1>3, <2>10 DEF ConfirmHead
  <2>11. CASE Current
    BY <1>3, <2>11 DEF Current
  <2> QED BY <1>4, <2>1, <2>2, <2>3, <2>4, <2>5, <2>6, <2>7, <2>8, <2>9, <2>10, <2>11 DEF Judge
<1>5. CASE ReadRef
  BY <1>2, <1>5 DEF ReadRef, github
<1>6. CASE ReadRelease
  <2>1. candidate.public \in BOOLEAN
    BY DEF TypeInv, Types, Candidate
  <2> QED BY <1>2, <1>6, <2>1 DEF ReadRelease, github
<1>7. CASE ReadAssets
  BY <1>2, <1>7 DEF ReadAssets, github
<1>8. CASE ReadManifest
  <2>1. PICK holds \in BOOLEAN : Check("manifest", holds)
    BY <1>8 DEF ReadManifest
  <2>2. Doing("manifest") /\ purpose' = purpose /\ (at' = at \/ at' = at + 1)
    BY <2>1, CheckMoves DEF TypeInv
  <2>3. at = ManifestAt
    BY <1>a, <2>2, Places
  <2>4. UNCHANGED <<staged, evidence, stable>>
    BY <1>8 DEF ReadManifest
  <2>5. \A f \in Files : staged[f] = None
    BY <1>a, <2>3 DEF BytesInv
  <2>6. /\ EvidenceAt' = EvidenceAt /\ EvidenceAt \in 9..10 /\ at \in 4..5
        /\ ManifestAt' = ManifestAt
        /\ DownloadAt' = DownloadAt /\ (purpose # "reuse" => DownloadAt \in 11..15)
    BY <1>a, <2>2, <2>3 DEF EvidenceAt, DownloadAt, ManifestAt, Position, Shape
  <2> QED BY <1>a, <2>2, <2>4, <2>5, <2>6 DEF BytesInv, Out
<1>9. CASE ReadRefAgain
  BY <1>2, <1>9 DEF ReadRefAgain, github
<1>10. CASE ReadReleaseAgain
  <2>1. candidate.public \in BOOLEAN
    BY DEF TypeInv, Types, Candidate
  <2> QED BY <1>2, <1>10, <2>1 DEF ReadReleaseAgain, github
<1>11. CASE ReadAssetsAgain
  <2>1. (Identity(second') = Identity(first)) \in BOOLEAN
    OBVIOUS
  <2> QED BY <1>2, <1>11, <2>1 DEF ReadAssetsAgain, github
<1>12. ASSUME NEW f \in Files, Download(f)
       PROVE  BytesInv'
  <2>1. /\ Doing("download") /\ UNCHANGED <<purpose, raw, evidence, stable>>
        /\ at' = at \/ (at' = at + 1 /\ Missing = {f})
        /\ f \in Missing
    BY <1>12 DEF Download, Proceed
  <2>2. at = DownloadAt /\ DownloadAt' = DownloadAt
    BY <1>a, <2>1, Places DEF DownloadAt, Position
  <2>3. /\ purpose \in {"promote", "accept"} /\ at \in {15, 11}
        /\ EvidenceAt' = EvidenceAt /\ EvidenceAt \in 9..10 /\ at > EvidenceAt
        /\ ManifestAt' = ManifestAt /\ ManifestAt \in 4..5 /\ at > ManifestAt
        /\ purpose = "promote" => at = 15
    BY <1>a, <2>1, <2>2 DEF DownloadAt, EvidenceAt, ManifestAt, Position, Shape
  <2>4. \/ staged' = staged /\ at' = at
        \/ staged' = [staged EXCEPT ![f] = raw.files[f]]
    BY <1>12 DEF Download
  <2>5. raw \in ManifestType
    BY <2>3 DEF TypeInv, RawRead
  <2>6. f \in DOMAIN raw.files /\ raw.files[f] # None
    <3>1. f \in DOMAIN raw.files
      BY <2>1 DEF Missing
    <3> QED BY <2>5, <3>1, ManifestFields, PromotionAssumption
  <2>7. staged \in [Files -> Bytes \cup {None}]
    BY DEF TypeInv, Types
  <2>8. \A g \in Files : staged'[g] # None =>
          at' > ManifestAt' /\ g \in DOMAIN raw'.files /\ staged'[g] = raw'.files[g]
    BY <1>a, <2>1, <2>3, <2>4, <2>6, <2>7 DEF BytesInv
  <2>9. at' > DownloadAt' => \A g \in DOMAIN raw'.files : staged'[g] # None
    <3>1. SUFFICES ASSUME at' > DownloadAt, NEW g \in DOMAIN raw.files
                   PROVE  staged'[g] # None
      BY <2>1, <2>2
    <3>2. at' = at + 1 /\ Missing = {f}
      BY <1>a, <2>1, <2>2, <3>1
    <3>3. staged' = [staged EXCEPT ![f] = raw.files[f]]
      BY <1>a, <2>4, <3>2
    <3>4. g \in Files
      BY <2>5, ManifestFields
    <3>5. g # f => staged[g] # None
      BY <3>2 DEF Missing
    <3> QED BY <2>6, <2>7, <3>3, <3>4, <3>5
  <2>10. Out' => purpose' = "promote" /\ at' > 28
    BY <1>a, <2>1, <2>3 DEF BytesInv, Out
  <2>11. at' > EvidenceAt' => \E artifact \in evidence' : artifact.manifest = raw'
    BY <2>1, <2>3 DEF BytesInv
  <2>12. ~(at' > 28)
    BY <2>1, <2>3
  <2> QED BY <2>8, <2>9, <2>10, <2>11, <2>12 DEF BytesInv
<1>13. CASE CreateTag
  <2>1. PICK holds \in BOOLEAN : Check("tag", holds)
    BY <1>13 DEF CreateTag
  <2>2. /\ stable'.manifest = stable.manifest /\ stable'.files = stable.files
        /\ Out' => Out
    BY <1>13 DEF CreateTag, TypeInv, Types, Out
  <2> QED BY <1>1, <1>13, <2>1, <2>2 DEF CreateTag, collected
<1>14. CASE CreateDraft
  <2>1. Doing("draft") /\ purpose' = purpose /\ at' = at + 1
    BY <1>14, CheckMoves DEF CreateDraft, TypeInv
  <2>2. purpose = "promote" /\ at = 28
    BY <1>a, <2>1, Places, PromotePlaces
  <2>3. UNCHANGED <<raw, staged, evidence>> /\ stable'.manifest = raw /\ stable'.files = staged
    BY <1>14 DEF CreateDraft, collected
  <2>4. /\ EvidenceAt' = EvidenceAt /\ EvidenceAt = 10 /\ ManifestAt' = ManifestAt
        /\ ManifestAt = 5 /\ DownloadAt' = DownloadAt /\ DownloadAt = 15
    BY <2>1, <2>2 DEF EvidenceAt, DownloadAt, ManifestAt, Position
  <2> QED BY <1>a, <2>1, <2>2, <2>3, <2>4 DEF BytesInv
<1>15. CASE Publish
  <2>1. stable'.manifest = stable.manifest /\ stable'.files = stable.files
    BY <1>15 DEF Publish, TypeInv, Types
  <2> QED BY <1>1, <1>15, <2>1 DEF Publish, collected
<1>16. CASE World \/ UNCHANGED vars
  <2>1. UNCHANGED <<purpose, at, raw, staged>>
    BY <1>16 DEF World, RequestFails, EditRelease, Rerun, EditEnvironment, TakeStable,
           ReplaceAsset, MoveTag, MoveHead, FinishRerun, Expire, Local, collected, vars
  <2>2. /\ stable'.manifest = stable.manifest /\ stable'.files = stable.files
        /\ Out' => Out
    BY <1>16 DEF World, RequestFails, EditRelease, Rerun, EditEnvironment, TakeStable,
           ReplaceAsset, MoveTag, MoveHead, FinishRerun, Expire, vars, github,
           Out, TypeInv, Types
  <2>3. \A artifact \in evidence : \E kept \in evidence' : kept.manifest = artifact.manifest
    <3>1. CASE \E gone \in Unexpired : Expire(gone)
      <4>1. PICK gone \in Unexpired :
              evidence' = (evidence \ {gone}) \cup {[gone EXCEPT !.expired = TRUE]}
        BY <3>1 DEF Expire
      <4>2. [gone EXCEPT !.expired = TRUE].manifest = gone.manifest
        BY DEF Unexpired, TypeInv, Types
      <4> QED BY <4>1, <4>2
    <3>2. CASE evidence \subseteq evidence'
      BY <3>2
    <3>3. (\E gone \in Unexpired : Expire(gone)) \/ evidence \subseteq evidence'
      BY <1>16 DEF World, RequestFails, EditRelease, Rerun, EditEnvironment, TakeStable,
           ReplaceAsset, MoveTag, MoveHead, FinishRerun, vars, github
    <3> QED BY <3>1, <3>2, <3>3
  <2> QED BY <1>a, <2>1, <2>2, <2>3, CalmBytes
<1> QED BY <1>4, <1>5, <1>6, <1>7, <1>8, <1>9, <1>10, <1>11, <1>12, <1>13, <1>14, <1>15, <1>16
        DEF Next, Verify, Collect

\* Whatever is uploaded to the candidate, rerun or expired while promote works, a public
\* stable release holds the manifest and exactly the packages that the evidence of an
\* accepted run binds.
THEOREM PromotesTheAcceptedBytes == Spec => []PromotesAcceptedBytes
<1>1. Init => TypeInv /\ BytesInv
  <2>1. Init => BytesInv
    BY Lengths DEF Init, BytesInv, Out, EvidenceAt, DownloadAt, Position
  <2> QED BY <2>1, TypeInit
<1>2. TypeInv /\ BytesInv /\ [Next]_vars => (TypeInv /\ BytesInv)'
  BY TypeStep, BytesStep
<1>3. TypeInv /\ BytesInv => PromotesAcceptedBytes
  <2> SUFFICES ASSUME TypeInv, BytesInv, stable.status = "public"
               PROVE  \E artifact \in evidence :
                        /\ stable.manifest = artifact.manifest
                        /\ \A f \in Files : stable.files[f] =
                              IF f \in DOMAIN artifact.manifest.files
                              THEN artifact.manifest.files[f] ELSE None
    BY DEF PromotesAcceptedBytes
  <2>1. purpose = "promote" /\ at > 28 /\ at \in Nat /\ EvidenceAt = 10
    BY DEF BytesInv, Out, EvidenceAt, Position, TypeInv, Shape
  <2>5. DownloadAt = 15
    BY <2>1 DEF DownloadAt, Position
  <2>2. PICK artifact \in evidence : artifact.manifest = raw
    BY <2>1 DEF BytesInv
  <2>3. stable.manifest = raw /\ stable.files = staged /\ at > DownloadAt
    BY <2>1, <2>5 DEF BytesInv
  <2>4. ASSUME NEW f \in Files
        PROVE  staged[f] = IF f \in DOMAIN raw.files THEN raw.files[f] ELSE None
    BY <2>1, <2>3 DEF BytesInv
  <2> QED BY <2>2, <2>3, <2>4
<1> QED BY <1>1, <1>2, <1>3, PTL DEF Spec

(***************************************************************************)
(* Two equal collections prove one instant.                                *)
(***************************************************************************)
\* Identities and revisions are taken from the count of changes.
AgesInv ==
    /\ candidate.updated <= changes
    /\ \A name \in Names : candidate.assets[name] # None => candidate.assets[name].id <= changes

\* How the candidate can differ after a step: an edit has a later revision, an upload a
\* later identity, and nothing else changes what an asset holds.
Later ==
    /\ changes' \in {changes, changes + 1}
    /\ candidate'.updated >= candidate.updated
    /\ candidate'.updated <= changes'
    /\ candidate'.updated = candidate.updated => candidate'.public = candidate.public
    /\ \A name \in Names :
          \/ candidate'.assets[name] = None
          \/ /\ candidate'.assets[name] # None
             /\ candidate'.assets[name].id = changes' /\ changes' = changes + 1
          \/ /\ candidate.assets[name] # None /\ candidate'.assets[name] # None
             /\ candidate'.assets[name].id = candidate.assets[name].id
             /\ candidate'.assets[name].content = candidate.assets[name].content

LEMMA LaterMoves ==
    ASSUME TypeInv, AgesInv, [Next]_vars
    PROVE  Later
<1>1. /\ candidate \in Candidate /\ changes \in Nat
      /\ candidate.updated \in Nat
      /\ \A name \in Names : candidate.assets[name] # None =>
            candidate.assets[name] \in Asset /\ candidate.assets[name].id \in Nat
  BY PromotionAssumption DEF TypeInv, Types, Candidate, Asset
<1>2. CASE UNCHANGED <<candidate, changes>>
  BY <1>1, <1>2 DEF Later, AgesInv
<1>3. CASE candidate' = candidate /\ changes' = changes + 1
  BY <1>1, <1>3 DEF Later, AgesInv
<1>4. ASSUME NEW name \in Names, Downloadable(name), candidate' = Fetched(name),
             changes' = changes
      PROVE  Later
  <2>1. /\ candidate' = [candidate EXCEPT !.assets =
                           [candidate.assets EXCEPT ![name] =
                              [candidate.assets[name] EXCEPT !.downloads = @ + 1]]]
        /\ candidate.assets[name] # None
    BY <1>4 DEF Fetched, Downloadable
  <2>2. /\ candidate.assets \in [Names -> Asset \cup {None}]
        /\ [candidate.assets[name] EXCEPT !.downloads = @ + 1] \in Asset
        /\ [candidate.assets[name] EXCEPT !.downloads = @ + 1].id = candidate.assets[name].id
        /\ [candidate.assets[name] EXCEPT !.downloads = @ + 1].content
              = candidate.assets[name].content
    BY <1>1, <2>1 DEF Candidate, Asset
  <2>3. None \notin Asset
    BY PromotionAssumption
  <2>4. candidate'.updated = candidate.updated /\ candidate'.public = candidate.public
    BY <1>1, <2>1 DEF Candidate
  <2>5. candidate'.assets = [candidate.assets EXCEPT ![name] =
                              [candidate.assets[name] EXCEPT !.downloads = @ + 1]]
    BY <1>1, <2>1 DEF Candidate
  <2>6. ASSUME NEW other \in Names, candidate.assets[other] # None
        PROVE  /\ candidate'.assets[other] # None
               /\ candidate'.assets[other].id = candidate.assets[other].id
               /\ candidate'.assets[other].content = candidate.assets[other].content
    BY <2>2, <2>3, <2>5, <2>6
  <2>7. ASSUME NEW other \in Names, candidate.assets[other] = None
        PROVE  candidate'.assets[other] = None
    BY <2>1, <2>2, <2>5, <2>7
  <2> QED BY <1>1, <1>4, <2>4, <2>6, <2>7 DEF Later, AgesInv
<1>5. CASE ReadManifest
  <2>1. CASE candidate' = candidate
    BY <1>2, <1>5, <2>1 DEF ReadManifest
  <2>2. CASE candidate' # candidate
    <3>1. candidate' = Fetched(Manifest) /\ outcome' # "refused" /\ changes' = changes
      BY <1>5, <2>2 DEF ReadManifest
    <3>2. Downloadable(Manifest)
      BY <1>5, <3>1 DEF ReadManifest, Check
    <3> QED BY <1>4, <3>1, <3>2 DEF Names
  <2> QED BY <2>1, <2>2
<1>6. ASSUME NEW f \in Files, Download(f)
      PROVE  Later
  <2>1. changes' = changes /\ (candidate' = candidate
                               \/ (Downloadable(f) /\ candidate' = Fetched(f)))
    BY <1>6 DEF Download
  <2> QED BY <1>2, <1>4, <2>1 DEF Names
<1>7. ASSUME NEW name \in Names, ReplaceAsset(name)
      PROVE  Later
  <2>1. changes' = changes + 1
    BY <1>7 DEF ReplaceAsset, Changing
  <2>2. PICK asset \in {None} \cup [id : {changes'}, downloads : {0},
                                 content : IF name = Manifest THEN Manifests ELSE Bytes] :
          candidate' = [candidate EXCEPT !.assets[name] = asset]
    BY <1>7 DEF ReplaceAsset
  <2>3. asset = None \/ (asset # None /\ asset.id = changes')
    BY <2>2
  <2>4. /\ candidate'.updated = candidate.updated /\ candidate'.public = candidate.public
        /\ candidate'.assets = [candidate.assets EXCEPT ![name] = asset]
    BY <1>1, <2>2 DEF Candidate
  <2>5. candidate.assets \in [Names -> Asset \cup {None}]
    BY <1>1 DEF Candidate
  <2>6. ASSUME NEW other \in Names
        PROVE  candidate'.assets[other] = IF other = name THEN asset ELSE candidate.assets[other]
    BY <2>4, <2>5
  <2> QED BY <1>1, <2>1, <2>3, <2>4, <2>6 DEF Later, AgesInv
<1>8. ASSUME NEW commit, MoveTag(commit)
      PROVE  Later
  <2>1. changes' = changes + 1
    BY <1>8 DEF MoveTag, Changing
  <2>2. /\ candidate'.updated = candidate.updated /\ candidate'.public = candidate.public
        /\ candidate'.assets = candidate.assets
    BY <1>1, <1>8 DEF MoveTag, Candidate
  <2> QED BY <1>1, <2>1, <2>2 DEF Later, AgesInv
<1>9. CASE EditRelease
  <2>1. changes' = changes + 1
    BY <1>9 DEF EditRelease, Changing
  <2>2. candidate'.updated = changes' /\ candidate'.assets = candidate.assets
    BY <1>1, <1>9 DEF EditRelease, Candidate
  <2> QED BY <1>1, <2>1, <2>2 DEF Later, AgesInv
<1>10. CASE World
  <2>1. CASE RequestFails \/ Rerun \/ EditEnvironment \/ TakeStable
             \/ (\E commit \in Commits : MoveHead(commit))
             \/ (\E ending \in {"failed", "executed", "copied"} : FinishRerun(ending))
             \/ (\E artifact \in Unexpired : Expire(artifact))
    BY <1>3, <2>1 DEF RequestFails, Rerun, EditEnvironment, TakeStable, MoveHead, FinishRerun,
                      Expire, Changing
  <2> QED BY <1>7, <1>8, <1>9, <1>10, <2>1 DEF World
<1>11. CASE UNCHANGED vars
  BY <1>2, <1>11 DEF vars, github
<1>12. CASE Judge \/ CreateTag \/ CreateDraft \/ Publish
  BY <1>2, <1>12 DEF Judge, RequireReviewers, VerifyPolicy, ValidateRun, ValidateGate,
         CheckAncestry, VerifyEvidence, EnsureAbsent, CheckInventory, ReadHead, ConfirmHead,
         Current, Ask, CreateTag, CreateDraft, Publish, github
<1>13. CASE ReadRef \/ ReadRelease \/ ReadAssets \/ ReadRefAgain \/ ReadReleaseAgain
            \/ ReadAssetsAgain
  BY <1>2, <1>13 DEF ReadRef, ReadRelease, ReadAssets, ReadRefAgain, ReadReleaseAgain,
         ReadAssetsAgain, github
<1> QED BY <1>5, <1>6, <1>10, <1>11, <1>12, <1>13 DEF Next, Verify, Collect

\* The order of the positions, whatever the purpose.
LEMMA Positions ==
    ASSUME Shape
    PROVE  /\ at \in Nat
           /\ RefAt \in Nat /\ RefAt < ReleaseAt /\ ReleaseAt < AssetsAt /\ AssetsAt < ManifestAt
           /\ ManifestAt < PolicyAt /\ PolicyAt < InventoryAt /\ InventoryAt < RefAgainAt
           /\ RefAgainAt < ReleaseAgainAt /\ ReleaseAgainAt < AssetsAgainAt
           /\ purpose # "reuse" => InventoryAt < DownloadAt /\ DownloadAt < RefAgainAt
           /\ {RefAt, ReleaseAt, AssetsAt, ManifestAt, PolicyAt, RefAgainAt, ReleaseAgainAt,
               AssetsAgainAt, InventoryAt, DownloadAt} \subseteq Nat
BY DEF Shape, Position, RefAt, ReleaseAt, AssetsAt, ManifestAt, PolicyAt, RefAgainAt,
       ReleaseAgainAt, AssetsAgainAt, InventoryAt, DownloadAt

LEMMA PositionsStay ==
    ASSUME purpose' = purpose
    PROVE  /\ RefAt' = RefAt /\ ReleaseAt' = ReleaseAt /\ AssetsAt' = AssetsAt
           /\ ManifestAt' = ManifestAt /\ PolicyAt' = PolicyAt
           /\ RefAgainAt' = RefAgainAt /\ ReleaseAgainAt' = ReleaseAgainAt
           /\ AssetsAgainAt' = AssetsAgainAt /\ InventoryAt' = InventoryAt
           /\ DownloadAt' = DownloadAt
BY DEF Position, RefAt, ReleaseAt, AssetsAt, ManifestAt, PolicyAt, RefAgainAt,
       ReleaseAgainAt, AssetsAgainAt, InventoryAt, DownloadAt

\* Which of its collections a step of the run writes, and where it stands then.
WriteMove ==
    /\ purpose' = purpose
    /\ at' = at \/ at' = at + 1
    /\ raw' = raw \/ at = ManifestAt
    /\ first'.ref = first.ref \/ at = RefAt
    /\ (first'.public = first.public /\ first'.updated = first.updated) \/ at = ReleaseAt
    /\ first'.assets = first.assets \/ at = AssetsAt
    /\ (witness' = witness /\ second'.ref = second.ref) \/ at = RefAgainAt
    /\ second'.updated = second.updated \/ at = ReleaseAgainAt
    /\ \A f \in Files : \/ staged'[f] = staged[f]
                        \/ /\ first.assets[f] # None /\ staged'[f] = first.assets[f].content
                           /\ at # AssetsAt

\* And what it has established when it proceeds.
ReadMove ==
    at' = at + 1 =>
        /\ at = ReleaseAt => /\ candidate.public /\ first'.public
                             /\ first'.updated = candidate.updated
        /\ at = AssetsAt => first'.assets = candidate.assets
        /\ at = ManifestAt => /\ first.assets[Manifest] # None
                              /\ raw' = first.assets[Manifest].content
        /\ at = PolicyAt => first.ref = raw.source
        /\ at = InventoryAt => InventoryHolds
        /\ at = RefAgainAt => witness' = candidate /\ second'.ref = candidate.ref
        /\ at = ReleaseAgainAt => second'.updated = candidate.updated
        /\ at = AssetsAgainAt => /\ Identity(second') = Identity(first)
                                 /\ second'.assets = candidate.assets

LEMMA OnceMoves ==
    ASSUME TypeInv, [Next]_vars
    PROVE  WriteMove /\ ReadMove
<1>a. at \in Nat /\ Shape
  BY DEF TypeInv, Shape
<1>b. first \in Candidate /\ second \in Candidate /\ candidate \in Candidate
  BY DEF TypeInv, Types
<1>1. ASSUME NEW step, NEW holds \in BOOLEAN, Check(step, holds),
             UNCHANGED <<first, second, witness, raw, staged>>,
             step = "policy" => (holds => first.ref = raw.source),
             step = "inventory" => (holds => InventoryHolds),
             step \notin {"release", "assets", "manifest", "ref again", "release again",
                          "assets again"}
      PROVE  WriteMove /\ ReadMove
  <2>1. /\ Doing(step) /\ purpose' = purpose
        /\ (holds /\ at' = at + 1) \/ at' = at
    BY <1>1, <1>a, CheckMoves
  <2>2. /\ step = "policy" <=> at = PolicyAt
        /\ step = "inventory" <=> at = InventoryAt
        /\ at # ReleaseAt /\ at # AssetsAt /\ at # ManifestAt
        /\ at # RefAgainAt /\ at # ReleaseAgainAt /\ at # AssetsAgainAt
    BY <1>1, <1>a, <2>1, Places
  <2>3. WriteMove
    BY <1>1, <2>1 DEF WriteMove
  <2>4. at # at + 1
    BY <1>a
  <2>5. ReadMove
    BY <1>1, <2>1, <2>2, <2>4 DEF ReadMove
  <2> QED BY <2>3, <2>5
<1>2. ASSUME NEW step, NEW holds \in BOOLEAN, Ask(step, holds),
             step = "policy" => (holds => first.ref = raw.source),
             step = "inventory" => (holds => InventoryHolds),
             step \notin {"release", "assets", "manifest", "ref again", "release again",
                          "assets again"}
      PROVE  WriteMove /\ ReadMove
  BY <1>1, <1>2 DEF Ask, collected
<1>4. CASE Judge
  <2>1. CASE RequireReviewers
    BY <1>2, <2>1 DEF RequireReviewers, TypeInv, Types
  <2>2. CASE VerifyPolicy
    BY <1>2, <2>2 DEF VerifyPolicy, PolicyHolds
  <2>3. CASE ValidateRun
    BY <1>2, <2>3 DEF ValidateRun, RunStands
  <2>4. CASE ValidateGate
    BY <1>2, <2>4 DEF ValidateGate, GateStands
  <2>5. CASE CheckAncestry
    <3>1. (raw.source \in Ancestors[head]) \in BOOLEAN
      OBVIOUS
    <3> QED BY <1>2, <2>5, <3>1 DEF CheckAncestry
  <2>6. CASE VerifyEvidence
    BY <1>1, <2>6 DEF VerifyEvidence
  <2>7. CASE EnsureAbsent
    BY <1>2, <2>7 DEF EnsureAbsent
  <2>8. CASE CheckInventory
    <3>1. InventoryHolds \in BOOLEAN
      BY DEF InventoryHolds
    <3> QED BY <1>2, <2>8, <3>1 DEF CheckInventory
  <2>9. CASE ReadHead
    BY <1>1, <2>9 DEF ReadHead
  <2>10. CASE ConfirmHead
    BY <1>2, <2>10 DEF ConfirmHead
  <2>11. CASE Current
    BY <1>2, <2>11 DEF Current
  <2> QED BY <1>4, <2>1, <2>2, <2>3, <2>4, <2>5, <2>6, <2>7, <2>8, <2>9, <2>10, <2>11 DEF Judge
\* The steps that read: where each stands, and how far it gets.
<1>5. ASSUME NEW step, NEW holds \in BOOLEAN, Check(step, holds)
      PROVE  /\ Doing(step) /\ purpose' = purpose /\ (at' = at \/ at' = at + 1)
             /\ at' = at + 1 => holds
             /\ step = "ref" => at = RefAt /\ at < ReleaseAt
             /\ step = "release" => at = ReleaseAt
             /\ step = "assets" => at = AssetsAt
             /\ step = "manifest" => at = ManifestAt
             /\ step = "ref again" => at = RefAgainAt
             /\ step = "release again" => at = ReleaseAgainAt
             /\ step = "assets again" => at = AssetsAgainAt
  <2>1. Doing(step) /\ purpose' = purpose /\ ((holds /\ at' = at + 1) \/ (~holds /\ at' = at))
    BY <1>5, <1>a, CheckMoves
  <2>2. at # at + 1
    BY <1>a
  <2> QED BY <1>a, <2>1, <2>2, Places, Positions
<1>6. /\ RefAt < ReleaseAt /\ ReleaseAt < AssetsAt /\ AssetsAt < ManifestAt
      /\ ManifestAt < PolicyAt /\ PolicyAt < InventoryAt /\ InventoryAt < RefAgainAt
      /\ RefAgainAt < ReleaseAgainAt /\ ReleaseAgainAt < AssetsAgainAt
      /\ {RefAt, ReleaseAt, AssetsAt, ManifestAt, PolicyAt, RefAgainAt, ReleaseAgainAt,
          AssetsAgainAt, InventoryAt, DownloadAt} \subseteq Nat
  BY <1>a, Positions
<1>7. CASE ReadRef
  <2>1. /\ purpose' = purpose /\ at = RefAt /\ (at' = at \/ at' = at + 1)
    BY <1>5, <1>7 DEF ReadRef
  <2>2. /\ UNCHANGED <<second, witness, raw, staged>>
        /\ first'.public = first.public /\ first'.updated = first.updated
        /\ first'.assets = first.assets
    BY <1>7, <1>b DEF ReadRef, Candidate
  <2> QED BY <1>6, <2>1, <2>2 DEF WriteMove, ReadMove
<1>8. CASE ReadRelease
  <2>1. candidate.public \in BOOLEAN
    BY <1>b DEF Candidate
  <2>2. /\ purpose' = purpose /\ at = ReleaseAt /\ (at' = at \/ at' = at + 1)
        /\ at' = at + 1 => candidate.public
    BY <1>5, <1>8, <2>1 DEF ReadRelease
  <2>3. /\ UNCHANGED <<second, witness, raw, staged>>
        /\ first'.public = candidate.public /\ first'.updated = candidate.updated
        /\ first'.assets = first.assets /\ first'.ref = first.ref
    BY <1>8, <1>b DEF ReadRelease, Candidate
  <2> QED BY <1>6, <2>2, <2>3 DEF WriteMove, ReadMove
<1>9. CASE ReadAssets
  <2>1. /\ purpose' = purpose /\ at = AssetsAt /\ (at' = at \/ at' = at + 1)
    BY <1>5, <1>9 DEF ReadAssets
  <2>2. /\ UNCHANGED <<second, witness, raw, staged>>
        /\ first'.public = first.public /\ first'.updated = first.updated
        /\ first'.assets = candidate.assets /\ first'.ref = first.ref
    BY <1>9, <1>b DEF ReadAssets, Candidate
  <2> QED BY <1>6, <2>1, <2>2 DEF WriteMove, ReadMove
<1>10. CASE ReadManifest
  <2>1. PICK holds \in BOOLEAN :
          /\ holds = (Downloadable(Manifest) /\ first.assets[Manifest].content \in ManifestType)
          /\ Check("manifest", holds)
    BY <1>10 DEF ReadManifest
  <2>2. /\ purpose' = purpose /\ at = ManifestAt /\ (at' = at \/ at' = at + 1)
        /\ at' = at + 1 => Downloadable(Manifest)
    BY <1>5, <2>1
  <2>3. UNCHANGED <<first, second, witness, staged>>
    BY <1>10 DEF ReadManifest
  <2>4. at' = at + 1 => raw' = first.assets[Manifest].content
    <3>1. at' = at + 1 => outcome' # "refused"
      <4>1. \/ holds /\ at' = at + 1 /\ outcome' \in {"running", "done"}
            \/ ~holds /\ at' = at /\ outcome' = "refused"
        BY <1>a, <2>1, CheckMoves
      <4> QED BY <1>a, <4>1
    <3> QED BY <1>10, <3>1 DEF ReadManifest
  <2>5. WriteMove
    BY <2>2, <2>3 DEF WriteMove
  <2> QED BY <1>6, <2>2, <2>4, <2>5 DEF ReadMove, Downloadable
<1>11. CASE ReadRefAgain
  <2>1. /\ purpose' = purpose /\ at = RefAgainAt /\ (at' = at \/ at' = at + 1)
    BY <1>5, <1>11 DEF ReadRefAgain
  <2>2. /\ UNCHANGED <<first, raw, staged>> /\ witness' = candidate
        /\ second'.ref = candidate.ref /\ second'.updated = second.updated
    BY <1>11, <1>b DEF ReadRefAgain, Candidate
  <2> QED BY <1>6, <2>1, <2>2 DEF WriteMove, ReadMove
<1>12. CASE ReadReleaseAgain
  <2>1. candidate.public \in BOOLEAN
    BY <1>b DEF Candidate
  <2>2. /\ purpose' = purpose /\ at = ReleaseAgainAt /\ (at' = at \/ at' = at + 1)
    BY <1>5, <1>12, <2>1 DEF ReadReleaseAgain
  <2>3. /\ UNCHANGED <<first, raw, staged, witness>>
        /\ second'.ref = second.ref /\ second'.updated = candidate.updated
    BY <1>12, <1>b DEF ReadReleaseAgain, Candidate
  <2> QED BY <1>6, <2>2, <2>3 DEF WriteMove, ReadMove
<1>13. CASE ReadAssetsAgain
  <2>1. PICK holds \in BOOLEAN : /\ holds = (Identity(second') = Identity(first))
                                 /\ Check("assets again", holds)
    BY <1>13 DEF ReadAssetsAgain
  <2>2. /\ purpose' = purpose /\ at = AssetsAgainAt /\ (at' = at \/ at' = at + 1)
        /\ at' = at + 1 => Identity(second') = Identity(first)
    BY <1>5, <2>1
  <2>3. /\ UNCHANGED <<first, raw, staged, witness>>
        /\ second'.ref = second.ref /\ second'.updated = second.updated
        /\ second'.assets = candidate.assets
    BY <1>13, <1>b DEF ReadAssetsAgain, Candidate
  <2> QED BY <1>6, <2>2, <2>3 DEF WriteMove, ReadMove
<1>14. ASSUME NEW f \in Files, Download(f)
       PROVE  WriteMove /\ ReadMove
  <2>1. /\ Doing("download") /\ (at' = at \/ at' = at + 1)
        /\ UNCHANGED <<purpose, first, second, witness, raw>>
    BY <1>14 DEF Download, Proceed
  <2>2. at = DownloadAt
    BY <1>a, <2>1, Places
  <2>3. /\ at # ReleaseAt /\ at # AssetsAt /\ at # ManifestAt
        /\ at # PolicyAt /\ at # InventoryAt
        /\ at # RefAgainAt /\ at # ReleaseAgainAt /\ at # AssetsAgainAt
    BY <1>a, <2>1, Places
  <2>4. staged \in [Files -> Bytes \cup {None}]
    BY DEF TypeInv, Types
  <2>5. \A g \in Files : \/ staged'[g] = staged[g]
                         \/ first.assets[g] # None /\ staged'[g] = first.assets[g].content
    BY <1>14, <2>4 DEF Download, Downloadable
  <2> QED BY <2>1, <2>3, <2>5 DEF WriteMove, ReadMove
<1>15. CASE CreateTag
  <2>1. PICK holds \in BOOLEAN : Check("tag", holds)
    BY <1>15 DEF CreateTag
  <2> QED BY <1>1, <1>15, <2>1 DEF CreateTag, collected
<1>16. CASE CreateDraft
  BY <1>1, <1>16 DEF CreateDraft, collected
<1>17. CASE Publish
  BY <1>1, <1>17 DEF Publish, collected
<1>18. CASE World \/ UNCHANGED vars
  <2>1. UNCHANGED <<purpose, at, collected>>
    BY <1>18 DEF World, RequestFails, EditRelease, Rerun, EditEnvironment, TakeStable,
           ReplaceAsset, MoveTag, MoveHead, FinishRerun, Expire, Local, vars
  <2> QED BY <1>a, <2>1 DEF WriteMove, ReadMove, collected
<1> QED BY <1>4, <1>7, <1>8, <1>9, <1>10, <1>11, <1>12, <1>13, <1>14, <1>15, <1>16, <1>17, <1>18
        DEF Next, Verify, Collect

\* What a collection holds of the manifest, once each part is read.
FirstInv ==
    /\ at > ReleaseAt => first.public
    /\ at > ManifestAt => /\ first.assets[Manifest] # None
                          /\ first.assets[Manifest].content = raw
    /\ at > PolicyAt => first.ref = raw.source
    /\ purpose = "reuse" /\ at > InventoryAt =>
          \A f \in DOMAIN raw.files : /\ first.assets[f] # None
                                      /\ first.assets[f].content = raw.files[f]
    /\ \A f \in Files : staged[f] # None => /\ first.assets[f] # None
                                            /\ first.assets[f].content = staged[f]

LEMMA FirstStep ==
    ASSUME TypeInv, BytesInv, FirstInv, [Next]_vars
    PROVE  FirstInv'
<1>1. WriteMove /\ ReadMove
  BY OnceMoves
<1>2. /\ at \in Nat /\ (at' = at \/ at' = at + 1)
      /\ purpose' = purpose
  BY <1>1 DEF TypeInv, Shape, WriteMove
<1>3. /\ RefAt < ReleaseAt /\ ReleaseAt < AssetsAt /\ AssetsAt < ManifestAt
      /\ ManifestAt < PolicyAt /\ PolicyAt < InventoryAt
      /\ RefAt \in Nat /\ ReleaseAt \in Nat /\ AssetsAt \in Nat /\ ManifestAt \in Nat
      /\ PolicyAt \in Nat /\ InventoryAt \in Nat
  BY Positions DEF TypeInv
<1>4. /\ ReleaseAt' = ReleaseAt /\ ManifestAt' = ManifestAt /\ PolicyAt' = PolicyAt
      /\ InventoryAt' = InventoryAt
  BY <1>2, PositionsStay
<1>5. at' > ReleaseAt => first'.public
  <2>1. CASE at > ReleaseAt
    BY <1>1, <1>3, <2>1 DEF FirstInv, WriteMove
  <2>2. CASE ~(at > ReleaseAt) /\ at' > ReleaseAt
    <3>1. at = ReleaseAt /\ at' = at + 1
      BY <1>2, <1>3, <2>2
    <3> QED BY <1>1, <3>1 DEF ReadMove
  <2> QED BY <2>1, <2>2
<1>6. at' > ManifestAt => /\ first'.assets[Manifest] # None
                          /\ first'.assets[Manifest].content = raw'
  <2>1. CASE at > ManifestAt
    <3>1. first'.assets = first.assets /\ raw' = raw
      BY <1>1, <1>2, <1>3, <2>1 DEF WriteMove
    <3> QED BY <2>1, <3>1 DEF FirstInv
  <2>2. CASE ~(at > ManifestAt) /\ at' > ManifestAt
    <3>1. at = ManifestAt /\ at' = at + 1
      BY <1>2, <1>3, <2>2
    <3>2. first'.assets = first.assets
      BY <1>1, <1>3, <3>1 DEF WriteMove
    <3> QED BY <1>1, <3>1, <3>2 DEF ReadMove
  <2> QED BY <2>1, <2>2
<1>7. at' > PolicyAt => first'.ref = raw'.source
  <2>1. CASE at > PolicyAt
    <3>1. first'.ref = first.ref /\ raw' = raw
      BY <1>1, <1>2, <1>3, <2>1 DEF WriteMove
    <3> QED BY <2>1, <3>1 DEF FirstInv
  <2>2. CASE ~(at > PolicyAt) /\ at' > PolicyAt
    <3>1. at = PolicyAt /\ at' = at + 1
      BY <1>2, <1>3, <2>2
    <3>2. first'.ref = first.ref /\ raw' = raw
      BY <1>1, <1>3, <3>1 DEF WriteMove
    <3> QED BY <1>1, <3>1, <3>2 DEF ReadMove
  <2> QED BY <2>1, <2>2
<1>8. purpose = "reuse" /\ at' > InventoryAt =>
          \A f \in DOMAIN raw'.files : /\ first'.assets[f] # None
                                       /\ first'.assets[f].content = raw'.files[f]
  <2>1. SUFFICES ASSUME purpose = "reuse", at' > InventoryAt, NEW f \in DOMAIN raw'.files
                 PROVE  first'.assets[f] # None /\ first'.assets[f].content = raw'.files[f]
    OBVIOUS
  <2>2. at > ManifestAt /\ at # AssetsAt /\ at # ManifestAt
    BY <1>2, <1>3, <2>1
  <2>3. first'.assets = first.assets /\ raw' = raw
    BY <1>1, <2>2 DEF WriteMove
  <2>4. CASE at > InventoryAt
    BY <2>1, <2>3, <2>4 DEF FirstInv
  <2>5. CASE ~(at > InventoryAt)
    <3>1. at = InventoryAt /\ at' = at + 1
      BY <1>2, <1>3, <2>1, <2>5
    <3>2. InventoryHolds
      BY <1>1, <3>1 DEF ReadMove
    <3>3. f \in Names
      BY <2>2, <2>3, ManifestFields DEF TypeInv, RawRead, Names
    <3> QED BY <2>1, <2>3, <3>2, <3>3 DEF InventoryHolds
  <2> QED BY <2>4, <2>5
<1>9. ASSUME NEW f \in Files, staged'[f] # None
      PROVE  first'.assets[f] # None /\ first'.assets[f].content = staged'[f]
  <2>1. CASE staged'[f] = staged[f]
    <3>1. at > ManifestAt
      BY <1>9, <2>1 DEF BytesInv
    <3>2. first'.assets = first.assets
      BY <1>1, <1>2, <1>3, <3>1 DEF WriteMove
    <3> QED BY <1>9, <2>1, <3>2 DEF FirstInv
  <2>2. CASE staged'[f] # staged[f]
    BY <1>1, <2>2 DEF WriteMove
  <2> QED BY <2>1, <2>2
<1> QED BY <1>2, <1>4, <1>5, <1>6, <1>7, <1>8, <1>9 DEF FirstInv

\* An asset of a snapshot against the one of the first collection: the same, or gone for
\* good, because an identity never comes back.
Kept(snapshot, name) == /\ snapshot.assets[name] # None
                        /\ snapshot.assets[name].id = first.assets[name].id
                        /\ snapshot.assets[name].content = first.assets[name].content
Gone(snapshot, name) == \/ snapshot.assets[name] = None
                        \/ snapshot.assets[name].id > first.assets[name].id
Had(name) == first.assets[name] # None

SinceInv ==
    /\ AgesInv
    /\ at > ReleaseAt => /\ candidate.updated >= first.updated
                         /\ candidate.updated = first.updated => candidate.public
    /\ at > AssetsAt => \A name \in Names : Had(name) =>
                           /\ first.assets[name].id <= changes
                           /\ Kept(candidate, name) \/ Gone(candidate, name)

WitnessInv ==
    /\ at > RefAgainAt =>
          /\ witness.ref = second.ref
          /\ witness.updated \in Nat
          /\ first.updated <= witness.updated /\ witness.updated <= candidate.updated
          /\ witness.updated = first.updated => witness.public
          /\ \A name \in Names : Had(name) =>
                /\ Kept(witness, name) \/ Gone(witness, name)
                /\ Gone(witness, name) => Gone(candidate, name)
    /\ at > ReleaseAgainAt => witness.updated <= second.updated
    /\ at > AssetsAgainAt => Holds(witness, raw)

LEMMA SinceStep ==
    ASSUME TypeInv, FirstInv, SinceInv, [Next]_vars
    PROVE  SinceInv'
<1>1. WriteMove /\ ReadMove /\ Later
  BY OnceMoves, LaterMoves DEF SinceInv
<1>2. /\ at \in Nat /\ (at' = at \/ at' = at + 1) /\ purpose' = purpose
      /\ changes \in Nat
  BY <1>1, PromotionAssumption DEF TypeInv, Shape, WriteMove, Types
<1>3. /\ RefAt < ReleaseAt /\ ReleaseAt < AssetsAt /\ AssetsAt < ManifestAt
      /\ RefAt \in Nat /\ ReleaseAt \in Nat /\ AssetsAt \in Nat
  BY Positions DEF TypeInv
<1>4. ReleaseAt' = ReleaseAt /\ AssetsAt' = AssetsAt
  BY <1>2, PositionsStay
<1>5. TypeInv'
  BY TypeStep
<1>6. /\ candidate.updated \in Nat /\ first.updated \in Nat
      /\ \A name \in Names : candidate.assets[name] # None => candidate.assets[name].id \in Nat
      /\ \A name \in Names : first.assets[name] # None => first.assets[name].id \in Nat
  BY PromotionAssumption DEF TypeInv, Types, Candidate, Asset
<1>7. /\ candidate'.updated \in Nat /\ first'.updated \in Nat /\ changes' \in Nat
      /\ \A name \in Names : candidate'.assets[name] # None => candidate'.assets[name].id \in Nat
  BY <1>5, PromotionAssumption DEF TypeInv, Types, Candidate, Asset
<1>8. AgesInv'
  <2>1. ASSUME NEW name \in Names, candidate'.assets[name] # None
        PROVE  candidate'.assets[name].id <= changes'
    <3>1. CASE candidate'.assets[name].id = changes'
      BY <1>7, <3>1
    <3>2. CASE /\ candidate.assets[name] # None
               /\ candidate'.assets[name].id = candidate.assets[name].id
      BY <1>1, <1>2, <1>6, <3>2 DEF Later, SinceInv, AgesInv
    <3> QED BY <1>1, <2>1, <3>1, <3>2 DEF Later
  <2> QED BY <1>1, <2>1 DEF AgesInv, Later
<1>9. at' > ReleaseAt => /\ candidate'.updated >= first'.updated
                         /\ candidate'.updated = first'.updated => candidate'.public
  <2>1. CASE at > ReleaseAt
    <3>1. first'.updated = first.updated
      BY <1>1, <1>2, <1>3, <2>1 DEF WriteMove
    <3>2. /\ candidate.updated >= first.updated
          /\ candidate.updated = first.updated => candidate.public
      BY <2>1 DEF SinceInv
    <3>3. /\ candidate'.updated >= candidate.updated
          /\ candidate'.updated = candidate.updated => candidate'.public = candidate.public
      BY <1>1 DEF Later
    <3> QED BY <1>6, <1>7, <3>1, <3>2, <3>3
  <2>2. CASE ~(at > ReleaseAt) /\ at' > ReleaseAt
    <3>1. at = ReleaseAt /\ at' = at + 1
      BY <1>2, <1>3, <2>2
    <3>2. candidate.public /\ first'.updated = candidate.updated
      BY <1>1, <3>1 DEF ReadMove
    <3>3. /\ candidate'.updated >= candidate.updated
          /\ candidate'.updated = candidate.updated => candidate'.public = candidate.public
      BY <1>1 DEF Later
    <3> QED BY <3>2, <3>3
  <2> QED BY <2>1, <2>2
<1>10. ASSUME at' > AssetsAt, NEW name \in Names, Had(name)'
       PROVE  /\ first'.assets[name].id <= changes'
              /\ Kept(candidate, name)' \/ Gone(candidate, name)'
  <2>1. PICK id \in Nat :
          /\ first'.assets[name].id = id /\ id <= changes
          /\ \/ /\ candidate.assets[name] # None
                /\ candidate.assets[name].id = id
                /\ candidate.assets[name].content = first'.assets[name].content
             \/ candidate.assets[name] = None
             \/ candidate.assets[name].id > id
    <3>1. CASE at > AssetsAt
      <4>1. first'.assets = first.assets
        BY <1>1, <1>2, <1>3, <3>1 DEF WriteMove
      <4>2. /\ first.assets[name] # None /\ first.assets[name].id <= changes
            /\ Kept(candidate, name) \/ Gone(candidate, name)
        BY <1>10, <3>1, <4>1 DEF Had, SinceInv
      <4> QED BY <1>6, <4>1, <4>2 DEF Kept, Gone
    <3>2. CASE ~(at > AssetsAt)
      <4>1. at = AssetsAt /\ at' = at + 1
        BY <1>2, <1>3, <1>10, <3>2
      <4>2. first'.assets = candidate.assets
        BY <1>1, <4>1 DEF ReadMove
      <4>3. candidate.assets[name] # None
        BY <1>10, <4>2 DEF Had
      <4>4. candidate.assets[name].id <= changes
        BY <4>3 DEF SinceInv, AgesInv
      <4> QED BY <1>6, <4>2, <4>3, <4>4
    <3> QED BY <3>1, <3>2
  <2>2. changes' \in {changes, changes + 1}
    BY <1>1 DEF Later
  <2>3. first'.assets[name].id <= changes'
    BY <1>2, <2>1, <2>2
  <2>4. CASE candidate'.assets[name] = None
    BY <2>3, <2>4 DEF Gone
  <2>5. CASE candidate'.assets[name].id = changes' /\ changes' = changes + 1
    BY <1>2, <2>1, <2>3, <2>5 DEF Gone
  <2>6. CASE /\ candidate.assets[name] # None /\ candidate'.assets[name] # None
             /\ candidate'.assets[name].id = candidate.assets[name].id
             /\ candidate'.assets[name].content = candidate.assets[name].content
    BY <2>1, <2>3, <2>6 DEF Gone, Kept
  <2> QED BY <1>1, <2>4, <2>5, <2>6 DEF Later
<1> QED BY <1>4, <1>8, <1>9, <1>10 DEF SinceInv

\* Equal identities: the same revision, tag and asset identities.
LEMMA SameIdentity ==
    ASSUME first \in Candidate, second' \in Candidate, Identity(second') = Identity(first)
    PROVE  /\ second'.ref = first.ref /\ second'.updated = first.updated
           /\ \A name \in Names : first.assets[name] # None =>
                 /\ second'.assets[name] # None
                 /\ second'.assets[name].id = first.assets[name].id
<1>1. DEFINE Reset(snapshot) ==
        [name \in Names |-> IF snapshot.assets[name] = None THEN None
                            ELSE [snapshot.assets[name] EXCEPT !.downloads = 0]]
<1>2. /\ Identity(first).ref = first.ref /\ Identity(first).updated = first.updated
      /\ Identity(first).assets = Reset(first)
      /\ Identity(second').ref = second'.ref /\ Identity(second').updated = second'.updated
      /\ Identity(second').assets = Reset(second')
  BY DEF Identity, Candidate
<1>3. Reset(second') = Reset(first)
  BY <1>2
<1>4. ASSUME NEW name \in Names, first.assets[name] # None
      PROVE  second'.assets[name] # None /\ second'.assets[name].id = first.assets[name].id
  <2>1. Reset(second')[name] = Reset(first)[name]
    BY <1>3
  <2>2. /\ first.assets[name] \in Asset
        /\ second'.assets[name] # None => second'.assets[name] \in Asset
    BY <1>4 DEF Candidate
  <2>3. /\ Reset(first)[name] = [first.assets[name] EXCEPT !.downloads = 0]
        /\ Reset(first)[name] \in Asset
        /\ Reset(first)[name].id = first.assets[name].id
    BY <1>4, <2>2 DEF Asset
  <2>4. second'.assets[name] # None
    <3>1. SUFFICES ASSUME second'.assets[name] = None PROVE FALSE
      OBVIOUS
    <3>2. Reset(second')[name] = None
      BY <3>1
    <3>3. None \notin Asset
      BY PromotionAssumption
    <3> QED BY <2>1, <2>3, <3>2, <3>3
  <2>5. Reset(second')[name].id = second'.assets[name].id
    BY <2>2, <2>4 DEF Asset
  <2> QED BY <2>1, <2>3, <2>4, <2>5
<1> QED BY <1>2, <1>4

LEMMA WitnessStep ==
    ASSUME TypeInv, BytesInv, FirstInv, SinceInv, WitnessInv, [Next]_vars
    PROVE  WitnessInv'
<1>1. WriteMove /\ ReadMove /\ Later
  BY OnceMoves, LaterMoves DEF SinceInv
<1>2. /\ at \in Nat /\ (at' = at \/ at' = at + 1) /\ purpose' = purpose /\ Shape
  BY <1>1 DEF TypeInv, Shape, WriteMove
<1>3. /\ RefAt < ReleaseAt /\ ReleaseAt < AssetsAt /\ AssetsAt < ManifestAt
      /\ ManifestAt < PolicyAt /\ PolicyAt < InventoryAt /\ InventoryAt < RefAgainAt
      /\ RefAgainAt < ReleaseAgainAt /\ ReleaseAgainAt < AssetsAgainAt
      /\ {RefAt, ReleaseAt, AssetsAt, ManifestAt, PolicyAt, RefAgainAt, ReleaseAgainAt,
          AssetsAgainAt, InventoryAt, DownloadAt} \subseteq Nat
      /\ purpose # "reuse" => DownloadAt < RefAgainAt
  BY <1>2, Positions
<1>4. RefAgainAt' = RefAgainAt /\ ReleaseAgainAt' = ReleaseAgainAt /\ AssetsAgainAt' = AssetsAgainAt
  BY <1>2, PositionsStay
<1>5. TypeInv' /\ SinceInv'
  BY TypeStep, SinceStep
<1>6. /\ candidate.updated \in Nat /\ candidate'.updated \in Nat /\ first.updated \in Nat
      /\ changes \in Nat
      /\ \A name \in Names : candidate.assets[name] # None => candidate.assets[name].id \in Nat
      /\ \A name \in Names : first.assets[name] # None => first.assets[name].id \in Nat
  BY <1>5, PromotionAssumption DEF TypeInv, Types, Candidate, Asset
\* What is gone from the candidate stays gone.
<1>7. ASSUME at > AssetsAt, NEW name \in Names, Had(name), Gone(candidate, name)
      PROVE  candidate'.assets[name] = None \/ candidate'.assets[name].id > first.assets[name].id
  <2>1. first.assets[name].id <= changes /\ first.assets[name].id \in Nat
    BY <1>6, <1>7 DEF SinceInv, Had
  <2>2. CASE candidate'.assets[name].id = changes' /\ changes' = changes + 1
    BY <1>6, <2>1, <2>2
  <2>3. CASE /\ candidate.assets[name] # None
             /\ candidate'.assets[name].id = candidate.assets[name].id
    BY <1>7, <2>3 DEF Gone
  <2> QED BY <1>1, <2>2, <2>3 DEF Later
<1>8. at' > RefAgainAt =>
          /\ at > AssetsAt /\ first'.assets = first.assets /\ first'.updated = first.updated
          /\ raw' = raw
  BY <1>1, <1>2, <1>3 DEF WriteMove
<1>9. ASSUME at' > RefAgainAt
      PROVE  /\ witness'.ref = second'.ref
             /\ witness'.updated \in Nat
             /\ first'.updated <= witness'.updated /\ witness'.updated <= candidate'.updated
             /\ witness'.updated = first'.updated => witness'.public
             /\ \A name \in Names : Had(name)' =>
                   /\ Kept(witness, name)' \/ Gone(witness, name)'
                   /\ Gone(witness, name)' => Gone(candidate, name)'
  <2>1. CASE at > RefAgainAt
    <3>1. witness' = witness /\ second'.ref = second.ref
      BY <1>1, <1>3, <2>1 DEF WriteMove
    <3>2. /\ witness.ref = second.ref /\ witness.updated \in Nat
          /\ first.updated <= witness.updated /\ witness.updated <= candidate.updated
          /\ witness.updated = first.updated => witness.public
      BY <2>1 DEF WitnessInv
    <3>3. candidate.updated <= candidate'.updated
      BY <1>1 DEF Later
    <3>4. ASSUME NEW name \in Names, Had(name)'
          PROVE  /\ Kept(witness, name)' \/ Gone(witness, name)'
                 /\ Gone(witness, name)' => Gone(candidate, name)'
      <4>1. /\ Had(name)
            /\ Kept(witness, name) \/ Gone(witness, name)
            /\ Gone(witness, name) => Gone(candidate, name)
        BY <1>8, <1>9, <2>1, <3>4 DEF WitnessInv, Had
      <4>2. Kept(witness, name)' = Kept(witness, name)
        BY <1>8, <1>9, <3>1 DEF Kept
      <4>3. Gone(witness, name)' = Gone(witness, name)
        BY <1>8, <1>9, <3>1 DEF Gone
      <4>4. Gone(candidate, name) => Gone(candidate, name)'
        BY <1>7, <1>8, <1>9, <4>1 DEF Gone
      <4> QED BY <4>1, <4>2, <4>3, <4>4
    <3> QED BY <1>6, <1>8, <1>9, <3>1, <3>2, <3>3, <3>4
  <2>2. CASE ~(at > RefAgainAt)
    <3>1. at = RefAgainAt /\ at' = at + 1
      BY <1>2, <1>3, <1>9, <2>2
    <3>2. witness' = candidate /\ second'.ref = candidate.ref
      BY <1>1, <3>1 DEF ReadMove
    <3>3. at > ReleaseAt /\ at > AssetsAt
      BY <1>2, <1>3, <3>1
    <3>4. /\ candidate.updated >= first.updated
          /\ candidate.updated = first.updated => candidate.public
      BY <3>3 DEF SinceInv
    <3>5. candidate.updated <= candidate'.updated
      BY <1>1 DEF Later
    <3>6. ASSUME NEW name \in Names, Had(name)'
          PROVE  /\ Kept(witness, name)' \/ Gone(witness, name)'
                 /\ Gone(witness, name)' => Gone(candidate, name)'
      <4>1. Had(name) /\ (Kept(candidate, name) \/ Gone(candidate, name))
        BY <1>8, <1>9, <3>3, <3>6 DEF SinceInv, Had
      <4>2. Kept(witness, name)' = Kept(candidate, name)
        BY <1>8, <1>9, <3>2 DEF Kept
      <4>3. Gone(witness, name)' = Gone(candidate, name)
        BY <1>8, <1>9, <3>2 DEF Gone
      <4>4. Gone(candidate, name) => Gone(candidate, name)'
        BY <1>7, <1>8, <1>9, <4>1 DEF Gone
      <4> QED BY <4>1, <4>2, <4>3, <4>4
    <3> QED BY <1>6, <1>8, <1>9, <3>2, <3>4, <3>5, <3>6
  <2> QED BY <2>1, <2>2
<1>10. at' > ReleaseAgainAt => witness'.updated <= second'.updated
  <2>1. CASE at > ReleaseAgainAt
    BY <1>1, <1>2, <1>3, <2>1 DEF WriteMove, WitnessInv
  <2>2. CASE ~(at > ReleaseAgainAt) /\ at' > ReleaseAgainAt
    <3>1. at = ReleaseAgainAt /\ at' = at + 1 /\ at > RefAgainAt
      BY <1>2, <1>3, <2>2
    <3>2. second'.updated = candidate.updated /\ witness' = witness
      BY <1>1, <1>3, <3>1 DEF ReadMove, WriteMove
    <3> QED BY <3>1, <3>2 DEF WitnessInv
  <2> QED BY <2>1, <2>2
<1>11. at' > AssetsAgainAt => Holds(witness', raw')
  <2>1. CASE at > AssetsAgainAt
    <3>1. at > RefAgainAt /\ at # RefAgainAt /\ at # ManifestAt
      BY <1>2, <1>3, <2>1
    <3>2. witness' = witness /\ raw' = raw
      BY <1>1, <3>1 DEF WriteMove
    <3> QED BY <2>1, <3>2 DEF WitnessInv, Holds
  <2>2. CASE ~(at > AssetsAgainAt) /\ at' > AssetsAgainAt
    <3>1. /\ at = AssetsAgainAt /\ at' = at + 1 /\ at > RefAgainAt /\ at > ReleaseAgainAt
          /\ at > PolicyAt /\ at > ManifestAt /\ at > InventoryAt /\ at > ReleaseAt
          /\ at > AssetsAt /\ (purpose # "reuse" => at > DownloadAt)
      BY <1>2, <1>3, <2>2
    <3>2. witness' = witness /\ raw' = raw /\ second'.ref = second.ref
          /\ second'.updated = second.updated
      BY <1>1, <1>2, <1>3, <3>1 DEF WriteMove
    <3>3. Identity(second') = Identity(first) /\ second'.assets = candidate.assets
      BY <1>1, <3>1 DEF ReadMove
    <3>4. /\ second'.ref = first.ref /\ second'.updated = first.updated
          /\ \A name \in Names : first.assets[name] # None =>
                 /\ second'.assets[name] # None
                 /\ second'.assets[name].id = first.assets[name].id
      BY <1>5, <3>3, SameIdentity DEF TypeInv, Types
    <3>5. witness.ref = raw.source
      BY <3>1, <3>2, <3>4 DEF WitnessInv, FirstInv
    <3>6. witness.public
      <4>1. witness.updated = first.updated
        BY <1>6, <3>1, <3>2, <3>4 DEF WitnessInv
      <4> QED BY <3>1, <4>1 DEF WitnessInv
    <3>7. ASSUME NEW name \in Names, first.assets[name] # None
          PROVE  /\ witness.assets[name] # None
                 /\ witness.assets[name].content = first.assets[name].content
      <4>1. ~Gone(candidate, name)
        BY <1>6, <3>3, <3>4, <3>7 DEF Gone
      <4>2. Kept(witness, name)
        BY <3>1, <3>7, <4>1 DEF WitnessInv, Had
      <4> QED BY <4>2 DEF Kept
    <3>8. witness.assets[Manifest] # None /\ witness.assets[Manifest].content = raw
      BY <3>1, <3>7 DEF FirstInv, Names
    <3>9. ASSUME NEW f \in DOMAIN raw.files
          PROVE  witness.assets[f] # None /\ witness.assets[f].content = raw.files[f]
      <4>1. raw \in ManifestType
        BY <3>1 DEF TypeInv, RawRead
      <4>2. f \in Files
        BY <4>1, ManifestFields
      <4>3. first.assets[f] # None /\ first.assets[f].content = raw.files[f]
        <5>1. CASE purpose = "reuse"
          BY <3>1, <5>1 DEF FirstInv
        <5>2. CASE purpose # "reuse"
          <6>1. staged[f] # None
            BY <3>1, <5>2 DEF BytesInv
          <6>2. staged[f] = raw.files[f]
            BY <4>2, <6>1 DEF BytesInv
          <6> QED BY <4>2, <6>1, <6>2 DEF FirstInv
        <5> QED BY <5>1, <5>2
      <4> QED BY <3>7, <4>2, <4>3 DEF Names
    <3> QED BY <3>2, <3>5, <3>6, <3>8, <3>9 DEF Holds
  <2> QED BY <2>1, <2>2
<1> QED BY <1>4, <1>9, <1>10, <1>11 DEF WitnessInv

OnceInv == TypeInv /\ BytesInv /\ FirstInv /\ SinceInv /\ WitnessInv

LEMMA OnceInit == Init => OnceInv
<1> SUFFICES ASSUME Init PROVE OnceInv
  OBVIOUS
<1>1. TypeInv
  BY TypeInit
<1>2. at = 1 /\ \A f \in Files : staged[f] = None
  BY DEF Init
<1>3. /\ RefAt \in Nat /\ ReleaseAt \in Nat /\ AssetsAt \in Nat /\ ManifestAt \in Nat
      /\ PolicyAt \in Nat /\ InventoryAt \in Nat /\ RefAgainAt \in Nat
      /\ ReleaseAgainAt \in Nat /\ AssetsAgainAt \in Nat
      /\ ReleaseAt > 1 /\ AssetsAt > 1 /\ ManifestAt > 1 /\ PolicyAt > 1 /\ InventoryAt > 1
      /\ RefAgainAt > 1 /\ ReleaseAgainAt > 1 /\ AssetsAgainAt > 1
  BY <1>1 DEF TypeInv, Shape, Position, RefAt, ReleaseAt, AssetsAt, ManifestAt, PolicyAt,
              RefAgainAt, ReleaseAgainAt, AssetsAgainAt, InventoryAt
<1>4. BytesInv
  BY Lengths DEF Init, BytesInv, Out, EvidenceAt, DownloadAt, Position
<1>5. FirstInv
  BY <1>2, <1>3 DEF FirstInv
<1>6. AgesInv
  <2>1. PICK attempt \in 1..MaxAttempt :
          candidate = [ref |-> Source, public |-> TRUE, updated |-> 0,
                       assets |-> Uploaded(Accepted(attempt))]
    BY DEF Init
  <2>2. \A name \in Names : Uploaded(Accepted(attempt))[name] # None =>
          Uploaded(Accepted(attempt))[name].id = 0
    BY DEF Uploaded
  <2>3. changes = 0
    BY DEF Init
  <2> QED BY <2>1, <2>2, <2>3 DEF AgesInv
<1>7. SinceInv /\ WitnessInv
  BY <1>2, <1>3, <1>6 DEF SinceInv, WitnessInv
<1> QED BY <1>1, <1>4, <1>5, <1>7 DEF OnceInv

LEMMA OnceStep == OnceInv /\ [Next]_vars => OnceInv'
BY TypeStep, BytesStep, FirstStep, SinceStep, WitnessStep DEF OnceInv

\* What is behind the run when it has passed a step that its order holds once.
LEMMA Passed ==
    ASSUME Shape, NEW step, Past(step), NEW place \in Nat,
           \A i \in 1..(IF purpose = "promote" THEN 29 ELSE 14) :
              Order[purpose][i] = step => i = place
    PROVE  at > place
<1>1. at \in Nat /\ at <= 1 + (IF purpose = "promote" THEN 29 ELSE 14)
  BY DEF Shape
<1>2. PICK i \in 1..(at - 1) : Order[purpose][i] = step
  BY DEF Past
<1>3. i \in 1..(IF purpose = "promote" THEN 29 ELSE 14) /\ i < at
  BY <1>1
<1>4. i = place
  BY <1>2, <1>3
<1> QED BY <1>3, <1>4

LEMMA PastAssetsAgain ==
    ASSUME Shape, Past("assets again")
    PROVE  at > AssetsAgainAt
<1>1. CASE purpose = "promote"
  <2>1. \A i \in 1..29 : Order["promote"][i] = "assets again" => i = 18
    BY Upto29, OrderPromote
  <2> QED BY <1>1, <2>1, Passed DEF AssetsAgainAt, Position
<1>2. CASE purpose = "accept"
  <2>1. \A i \in 1..14 : Order["accept"][i] = "assets again" => i = 14
    BY Upto14, OrderAccept
  <2> QED BY <1>2, <2>1, Passed DEF AssetsAgainAt, Position
<1>3. CASE purpose = "reuse"
  <2>1. \A i \in 1..14 : Order["reuse"][i] = "assets again" => i = 13
    BY Upto14, OrderReuse
  <2> QED BY <1>3, <2>1, Passed DEF AssetsAgainAt, Position
<1> QED BY <1>1, <1>2, <1>3 DEF Shape

\* GitHub locks nothing, and neither collection of the candidate is one request; still, when
\* the second equals the first, there was one instant at which the candidate was public,
\* tagged at its source and held every file of the manifest, for each of the purposes.
THEOREM VerifiesOneInstant == Spec => []VerifiedAtOnce
<1>1. OnceInv => VerifiedAtOnce
  <2> SUFFICES ASSUME OnceInv, Past("assets again") PROVE Holds(witness, raw)
    BY DEF VerifiedAtOnce
  <2>1. at > AssetsAgainAt
    BY PastAssetsAgain DEF OnceInv, TypeInv
  <2> QED BY <2>1 DEF OnceInv, WitnessInv
<1> QED BY <1>1, OnceInit, OnceStep, PTL DEF Spec
===============================================================================
