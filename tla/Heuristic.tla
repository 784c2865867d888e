------------------------------ MODULE Heuristic ------------------------------
(***************************************************************************)
(* The heuristic engine (classifier/heuristic): filter, normalise, filter   *)
(* again, classify.  All of it is a function of the list of actions.        *)
(*                                                                          *)
(* An action has its sequence number, its type, the selector of its target  *)
(* (or NoSelector), a text, the time at which it happened, whether its      *)
(* target was enabled, and its look: what the classifying rules recognise   *)
(* of the target.  A text is a word with or without what normalisation      *)
(* removes: surrounding whitespace of a value, a URL not in canonical form. *)
(* The empty string is the empty word without whitespace.                   *)
(***************************************************************************)
EXTENDS Integers, Sequences, FiniteSets

CONSTANTS
    FollowupWindow,  \* _FOLLOWUP_WINDOW_MS
    BurstGap,        \* _BURST_GAP_MS
    NoSelector

ASSUME HeuristicAssumption == BurstGap \in Nat /\ FollowupWindow \in Nat

-----------------------------------------------------------------------------
(* Filters.  as is ctx.actions and i is ctx.index. *)

EmptyText == [word |-> "", padded |-> FALSE]

IsInput(a) == a.type = "input"

SameField(a, b) == IsInput(a) /\ IsInput(b) /\ a.selector = b.selector

\* The first later input into the field decides: it comes in time or not.
DropFocusBlurOnly(as, i) ==
    LET later == {j \in (i + 1)..Len(as) : SameField(as[i], as[j])}
    IN  /\ IsInput(as[i])
        /\ as[i].text = EmptyText
        /\ \A j \in later : (\A k \in later : j <= k)
                               => as[j].time - as[i].time > FollowupWindow

\* Mutant: any earlier navigation to the URL counts, not only the preceding action.
DropDuplicateNavigateAnywhere(as, i) ==
    /\ as[i].type = "navigate"
    /\ \E j \in 1..(i - 1) : as[j].type = "navigate" /\ as[j].text = as[i].text

DropDuplicateNavigate(as, i) ==
    /\ as[i].type = "navigate"
    /\ i > 1
    /\ as[i - 1].type = "navigate"
    /\ as[i - 1].text = as[i].text

DropDisabledTarget(as, i) == ~as[i].enabled

DropCoalescedFollowers(as, i, marked) == as[i].sequence \in marked

\* An action goes when any of the filters rejects it.
default_filters(as, i, marked) ==
    \/ DropFocusBlurOnly(as, i)
    \/ DropDuplicateNavigate(as, i)
    \/ DropDisabledTarget(as, i)
    \/ DropCoalescedFollowers(as, i, marked)

\* FilterPipeline.apply: up to the k-th action that stays there are k of them.
FilterPass(as, marked) ==
    LET kept == {i \in DOMAIN as : ~default_filters(as, i, marked)}
        Kth(k) == CHOOSE i \in kept : Cardinality({j \in kept : j <= i}) = k
    IN  [k \in 1..Cardinality(kept) |-> as[Kth(k)]]

-----------------------------------------------------------------------------
(* Normalizers. *)

Bare(text) == [text EXCEPT !.padded = FALSE]

TrimInputValue(a) ==
    IF IsInput(a) /\ ~a.sensitive THEN [a EXCEPT !.text = Bare(@)] ELSE a

\* Action i goes on with the burst that action i - 1 is part of.
InBurst(as, i) ==
    /\ i > 1
    /\ SameField(as[i - 1], as[i])
    /\ as[i].time - as[i - 1].time <= BurstGap

\* The sequence numbers that bursts leave in ctx.scratch.
CoalescedIndexes(as) == {as[i].sequence : i \in {j \in DOMAIN as : InBurst(as, j)}}

\* Mutant: the leader keeps what it has.
CoalesceInputBurstsNone(as, i, a) == a

\* The leader of a burst takes the value of its last follower, as ctx.actions
\* has it: not trimmed.
CoalesceInputBursts(as, i, a) ==
    LET burst == {j \in (i + 1)..Len(as) : \A k \in (i + 1)..j : InBurst(as, k)}
        last == CHOOSE j \in burst : \A k \in burst : k <= j
    IN  IF IsInput(a) /\ ~InBurst(as, i) /\ burst # {}
        THEN [a EXCEPT !.text = as[last].text]
        ELSE a

CanonicalizeUrl(a) ==
    IF a.type = "navigate" THEN [a EXCEPT !.text = Bare(@)] ELSE a

default_normalizers(as, i) ==
    CanonicalizeUrl(CoalesceInputBursts(as, i, TrimInputValue(as[i])))

\* NormalizePipeline.apply
NormalizePass(as) == [i \in DOMAIN as |-> default_normalizers(as, i)]

-----------------------------------------------------------------------------
(* Classifiers.  A rule fires on actions of a type whose target has what it   *)
(* looks for; its confidence is in %.                                         *)
Rule(type, needs, intent, confidence) ==
    [type |-> type, needs |-> needs, intent |-> intent, confidence |-> confidence]

LoginClassifier == Rule("input", {"password"}, "login", 95)

\* Role, type, placeholder, name or label say that it is a search box.
SearchClassifier == Rule("input", {"search"}, "search", 90)

\* The text of a submit button, and a form around it.
FormSubmitClassifier == Rule("click", {"submit", "form"}, "form_submit", 85)

ConfirmationClassifier == Rule("click", {"confirm"}, "confirmation", 80)

\* Label, class or text say that it closes something.
DismissModalClassifier == Rule("click", {"close"}, "dismiss_modal", 80)

NavigationClassifier == Rule("navigate", {}, "navigation", 100)

FormFillClassifier == Rule("input", {}, "form_fill", 70)

default_classifiers ==
    <<LoginClassifier, SearchClassifier, FormSubmitClassifier, ConfirmationClassifier,
      DismissModalClassifier, NavigationClassifier, FormFillClassifier>>

\* The most confident of the rules that fire, the first of equals; UNKNOWN when
\* none does.
Classify(a) ==
    LET rules == default_classifiers
        fires == {r \in DOMAIN rules : rules[r].type = a.type /\ rules[r].needs \subseteq a.look}
        best == CHOOSE r \in fires : \A q \in fires :
                    \/ rules[q].confidence < rules[r].confidence
                    \/ rules[q].confidence = rules[r].confidence /\ r <= q
    IN  IF fires = {}
        THEN [intent |-> "unknown", confidence |-> 0]
        ELSE [intent |-> rules[best].intent, confidence |-> rules[best].confidence]

\* HeuristicEngine.process
Process(actions) ==
    LET filtered == FilterPass(actions, {})
        cleaned == FilterPass(NormalizePass(filtered), CoalescedIndexes(filtered))
    IN  [i \in DOMAIN cleaned |-> [action |-> cleaned[i], verdict |-> Classify(cleaned[i])]]
=============================================================================
