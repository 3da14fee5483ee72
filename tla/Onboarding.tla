----------------------------- MODULE Onboarding -----------------------------
(***************************************************************************)
(* The onboarding of one customer: processCustomerOnboarding.              *)
(*                                                                         *)
(* A super admin starts a run, which performs the steps that the stored    *)
(* logs do not list as successful yet: each makes something outside of the *)
(* document (a service, a plan, a DID, a widget, a page).  The logs and    *)
(* the ids are saved once, when the run stops: a run that dies has made    *)
(* things that no document knows of, a step whose answer is lost fails     *)
(* although it took effect, and nothing keeps two runs apart.              *)
(***************************************************************************)
EXTENDS Integers, Sequences, Functions

CONSTANTS
    Runs,         \* the calls of processCustomerOnboarding in progress
    MaxFailures,  \* bound: steps that fail without any effect
    MaxLosses,    \* bound: steps whose answer is lost, runs that die
    MaxOverlaps   \* bound: runs started while another is in progress

ASSUME OnboardingAssumption ==
    /\ MaxFailures \in Nat
    /\ MaxLosses \in Nat
    /\ MaxOverlaps \in Nat

\* enum OnboardingStep, in its order.
AllSteps == <<"GIVE_DASHBOARD_ACCESS", "CREATE_TEAM_ROLE",
              "CREATE_SSI_SERVICE", "CREDIT_SSI_SERVICE",
              "CREATE_DID", "REGISTER_DID",
              "CREATE_KYC_SERVICE", "CREDIT_KYC_SERVICE",
              "SETUP_KYC_WIDGET", "SETUP_KYB_WIDGET",
              "CONFIGURE_KYC_VERIFIER_PAGE", "CONFIGURE_KYB_VERIFIER_PAGE",
              "COMPLETED">>

\* 1 for the first step; 0 says that no step was successful.
IndexOf(step) == CHOOSE i \in 1..Len(AllSteps) : AllSteps[i] = step

\* The ids of what was made count from 1; 0 is an id that was never set.
Ids == {"ssi", "did", "kyc"}
NoIds == [i \in Ids |-> 0]

VARIABLES
    kyb,         \* interestedService includes KYB
    status,      \* document: onboardingStatus, "none" before it is created
    progress,    \* document: IndexOf the last step logged as successful
    ids,         \* document: ssiServiceId, businessId, kycServiceId
    asked,       \* a mail asks the super admin to process the request
    access,      \* the user document lists access to the dashboard
    role,        \* the user has a team role
    ssis,        \* how many SSI services were created
    dids,        \* the SSI service each DID was created with
    registered,  \* the DIDs registered on the chain
    kycs,        \* the SSI service and the issuer DID of each KYC service
    plans,       \* the services with a plan of this onboarding
    widgets,     \* the KYC service of each KYC widget
    pages,       \* the verifier pages: KYC service, type, linked widget
    pc,          \* what a run is at
    snap,        \* the progress and the ids a run has loaded
    made,        \* the ids a run made itself
    widget,      \* widgetConfigDetail of a run, 0 if it made none
    last,        \* IndexOf the last step a run was successful with
    failures, losses, overlaps  \* how many there were so far

docVars == <<kyb, status, progress, ids>>
effects == <<access, role, ssis, dids, registered, kycs, plans, widgets, pages>>
local == <<pc, snap, made, widget, last>>
counters == <<failures, losses, overlaps>>
vars == <<docVars, asked, effects, local, counters>>

\* What a run is at: idle, before a step, or before it saves the outcome.
Outcomes == {"APPROVED", "FAILED"}
Labels == {"idle"} \cup Range(AllSteps) \cup Outcomes

\* Nothing is made for an id that was never set.
Made == Nat \ {0}
Page == [kyc : Made, type : {"kyc", "kyb"}, widget : Nat]

TypeOK ==
    /\ kyb \in BOOLEAN
    /\ status \in {"none", "INITIATED"} \cup Outcomes
    /\ progress \in 0..Len(AllSteps)
    /\ ids \in [Ids -> Nat]
    /\ asked \in BOOLEAN /\ access \in BOOLEAN /\ role \in BOOLEAN
    /\ ssis \in Nat
    /\ dids \in Seq(Made)
    /\ registered \subseteq Made
    /\ kycs \in Seq([ssi : Made, did : Made])
    /\ plans \subseteq {"ssi", "kyc"} \X Made
    /\ widgets \in Seq(Made)
    /\ pages \subseteq Page
    /\ pc \in [Runs -> Labels]
    /\ snap \in [Runs -> [progress : 0..Len(AllSteps), ids : [Ids -> Nat]]]
    /\ made \in [Runs -> [Ids -> Nat]]
    /\ widget \in [Runs -> Nat]
    /\ last \in [Runs -> 0..Len(AllSteps)]
    /\ failures \in 0..MaxFailures
    /\ losses \in 0..MaxLosses
    /\ overlaps \in 0..MaxOverlaps

NoSnap == [progress |-> 0, ids |-> NoIds]

Init ==
    /\ kyb \in BOOLEAN
    /\ status = "none" /\ progress = 0 /\ ids = NoIds
    /\ asked = FALSE /\ access = FALSE /\ role = FALSE
    /\ ssis = 0 /\ dids = <<>> /\ registered = {} /\ kycs = <<>>
    /\ plans = {} /\ widgets = <<>> /\ pages = {}
    /\ pc = [r \in Runs |-> "idle"]
    /\ snap = [r \in Runs |-> NoSnap]
    /\ made = [r \in Runs |-> NoIds]
    /\ widget = [r \in Runs |-> 0]
    /\ last = [r \in Runs |-> 0]
    /\ failures = 0 /\ losses = 0 /\ overlaps = 0

-----------------------------------------------------------------------------
(* The request of the customer.                                            *)

\* A mail to all super admins, of whom one answers.
MailSuperAdmins == asked' = TRUE

\* createCustomerOnboardingDetail: the document, and a mail to super admins.
Submit ==
    /\ status = "none"
    /\ status' = "INITIATED"
    /\ MailSuperAdmins
    /\ UNCHANGED <<kyb, progress, ids, effects, local, counters>>

\* Mutant: a request that failed cannot be sent again.
Mutant_AskAgain ==
    /\ status = "INITIATED"
    /\ ~asked
    /\ asked' = TRUE
    /\ UNCHANGED <<docVars, effects, local, counters>>

\* notifyAdminOnOnboardingRetry: another mail, until the request is approved.
AskAgain ==
    /\ status \notin {"none", "APPROVED"}
    /\ ~asked
    /\ MailSuperAdmins
    /\ UNCHANGED <<docVars, effects, local, counters>>

-----------------------------------------------------------------------------
(* A run.                                                                  *)

\* The steps without those of KYB, unless the customer is interested in it.
FilteredSteps ==
    IF kyb THEN AllSteps
           ELSE SubSeq(AllSteps, 1, 9) \o <<AllSteps[11], AllSteps[13]>>

\* Mutant: the last successful step is performed again.
Mutant_Remaining(p) == SubSeq(FilteredSteps, IF p = 0 THEN 1 ELSE p,
                              Len(FilteredSteps))

\* The steps left after the p-th of all steps: the code counts p in all steps
\* and cuts the filtered ones.
Remaining(p) == SubSeq(FilteredSteps, p + 1, Len(FilteredSteps))

\* The step that follows in the loop of a run.
Following(step) ==
    LET i == CHOOSE j \in 1..Len(FilteredSteps) : FilteredSteps[j] = step
    IN  IF i = Len(FilteredSteps) THEN "APPROVED" ELSE FilteredSteps[i + 1]

Busy == {r \in Runs : pc[r] # "idle"}

\* The super admin answers a mail: the run loads the document and finds out
\* which steps remain, or refuses because none does.
Load(r) ==
    /\ asked
    /\ pc[r] = "idle"
    /\ asked' = FALSE
    /\ Busy # {} => overlaps < MaxOverlaps
    /\ overlaps' = IF Busy = {} THEN overlaps ELSE overlaps + 1
    /\ IF Remaining(progress) = <<>>
       THEN UNCHANGED local
       ELSE /\ pc' = [pc EXCEPT ![r] = Head(Remaining(progress))]
            /\ snap' = [snap EXCEPT ![r] = [progress |-> progress, ids |-> ids]]
            /\ made' = [made EXCEPT ![r] = NoIds]
            /\ widget' = [widget EXCEPT ![r] = 0]
            /\ last' = [last EXCEPT ![r] = progress]
    /\ UNCHANGED <<docVars, effects, failures, losses>>

\* The id a step works with: made by this run, or loaded by it.
Use(r, i) == IF made[r][i] # 0 THEN made[r][i] ELSE snap[r].ids[i]

\* The answer of a step arrives: the step is logged as successful and the run
\* goes on, with the id n if the step made one.
Answered(r, step, i, n) ==
    /\ last' = [last EXCEPT ![r] = IndexOf(step)]
    /\ pc' = [pc EXCEPT ![r] = Following(step)]
    /\ made' = IF i \in Ids THEN [made EXCEPT ![r][i] = n] ELSE made
    /\ widget' = IF i = "widget" THEN [widget EXCEPT ![r] = n] ELSE widget
    /\ UNCHANGED <<snap, losses>>

\* A step is logged as failed, and the run stops.
Failed(r) == pc' = [pc EXCEPT ![r] = "FAILED"]

\* The answer is lost, or a later await of the step throws.
Lost(r) ==
    /\ losses < MaxLosses
    /\ losses' = losses + 1
    /\ Failed(r)
    /\ UNCHANGED <<snap, made, widget, last>>

\* The frame of every step: it took effect, whatever becomes of its answer.
Performed(r, step, i, n) ==
    /\ pc[r] = step
    /\ Answered(r, step, i, n) \/ Lost(r)
    /\ UNCHANGED <<docVars, asked, failures, overlaps>>

\* A step throws before it had any effect; the last one awaits nothing.
StepFails(r) ==
    /\ pc[r] \in Range(AllSteps) \ {"COMPLETED"}
    /\ failures < MaxFailures
    /\ failures' = failures + 1
    /\ Failed(r)
    /\ UNCHANGED <<docVars, asked, effects, snap, made, widget, last, losses,
                   overlaps>>

\* The page of this service and type is there (a unique index): the step
\* throws.
PageExists(r, type) == \E p \in pages : /\ p.kyc = Use(r, "kyc")
                                        /\ p.type = type

StepRefused(r) ==
    /\ \/ pc[r] = "CONFIGURE_KYC_VERIFIER_PAGE" /\ PageExists(r, "kyc")
       \/ pc[r] = "CONFIGURE_KYB_VERIFIER_PAGE" /\ PageExists(r, "kyb")
    /\ Failed(r)
    /\ UNCHANGED <<docVars, asked, effects, snap, made, widget, last, counters>>

-----------------------------------------------------------------------------
(* The steps.                                                              *)

\* An update that only adds the access types that are missing.
GiveDashboardAccess(r) ==
    /\ Performed(r, "GIVE_DASHBOARD_ACCESS", "none", 0)
    /\ access' = TRUE
    /\ UNCHANGED <<role, ssis, dids, registered, kycs, plans, widgets, pages>>

CreateTeamRole(r) ==
    /\ Performed(r, "CREATE_TEAM_ROLE", "none", 0)
    /\ role' = TRUE
    /\ UNCHANGED <<access, ssis, dids, registered, kycs, plans, widgets, pages>>

CreateSsiService(r) ==
    /\ Performed(r, "CREATE_SSI_SERVICE", "ssi", ssis + 1)
    /\ ssis' = ssis + 1
    /\ UNCHANGED <<access, role, dids, registered, kycs, plans, widgets, pages>>

\* grantCredit finds or creates the plan of this service and this reference,
\* which names the onboarding, not the run.
HandleCreditService(r, step, service) ==
    /\ Performed(r, step, "none", 0)
    /\ plans' = plans \cup {<<service, Use(r, service)>>}
    /\ UNCHANGED <<access, role, ssis, dids, registered, kycs, widgets, pages>>

CreditSsiService(r) == HandleCreditService(r, "CREDIT_SSI_SERVICE", "ssi")

CreateDid(r) ==
    /\ Performed(r, "CREATE_DID", "did", Len(dids) + 1)
    /\ dids' = Append(dids, Use(r, "ssi"))
    /\ UNCHANGED <<access, role, ssis, registered, kycs, plans, widgets, pages>>

\* Mutant: the DID registered is the stored one.
Mutant_RegisterDid(r) ==
    /\ Performed(r, "REGISTER_DID", "none", 0)
    /\ registered' = registered \cup {snap[r].ids["did"]}
    /\ UNCHANGED <<access, role, ssis, dids, kycs, plans, widgets, pages>>

RegisterDid(r) ==
    /\ Performed(r, "REGISTER_DID", "none", 0)
    /\ registered' = registered \cup {Use(r, "did")}
    /\ UNCHANGED <<access, role, ssis, dids, kycs, plans, widgets, pages>>

CreateKycService(r) ==
    /\ Performed(r, "CREATE_KYC_SERVICE", "kyc", Len(kycs) + 1)
    /\ kycs' = Append(kycs, [ssi |-> Use(r, "ssi"), did |-> Use(r, "did")])
    /\ UNCHANGED <<access, role, ssis, dids, registered, plans, widgets, pages>>

CreditKycService(r) == HandleCreditService(r, "CREDIT_KYC_SERVICE", "kyc")

\* widgetConfigDetail is kept by the run alone: no field stores it.
SetupKycWidget(r) ==
    /\ Performed(r, "SETUP_KYC_WIDGET", "widget", Len(widgets) + 1)
    /\ widgets' = Append(widgets, Use(r, "kyc"))
    /\ UNCHANGED <<access, role, ssis, dids, registered, kycs, plans, pages>>

\* A KYB widget is linked from nowhere.
SetupKybWidget(r) ==
    /\ Performed(r, "SETUP_KYB_WIDGET", "none", 0)
    /\ UNCHANGED effects

\* storeWebPageConfigDetial; without a widget of this run the page links an id
\* of nothing.
ConfigurePage(r, step, type, w) ==
    /\ ~PageExists(r, type)
    /\ Performed(r, step, "none", 0)
    /\ pages' = pages \cup {[kyc |-> Use(r, "kyc"), type |-> type,
                             widget |-> w]}
    /\ UNCHANGED <<access, role, ssis, dids, registered, kycs, plans, widgets>>

ConfigureKycPage(r) ==
    ConfigurePage(r, "CONFIGURE_KYC_VERIFIER_PAGE", "kyc", widget[r])

ConfigureKybPage(r) ==
    ConfigurePage(r, "CONFIGURE_KYB_VERIFIER_PAGE", "kyb", 0)

Complete(r) ==
    /\ pc[r] = "COMPLETED"
    /\ Answered(r, "COMPLETED", "none", 0)
    /\ UNCHANGED <<docVars, asked, effects, failures, overlaps>>

Step(r) ==
    \/ GiveDashboardAccess(r) \/ CreateTeamRole(r)
    \/ CreateSsiService(r) \/ CreditSsiService(r)
    \/ CreateDid(r) \/ RegisterDid(r)
    \/ CreateKycService(r) \/ CreditKycService(r)
    \/ SetupKycWidget(r) \/ SetupKybWidget(r)
    \/ ConfigureKycPage(r) \/ ConfigureKybPage(r)
    \/ Complete(r) \/ StepRefused(r)

-----------------------------------------------------------------------------
(* The end of a run.                                                       *)

\* Its locals are gone.
Ended(r) ==
    /\ pc' = [pc EXCEPT ![r] = "idle"]
    /\ snap' = [snap EXCEPT ![r] = NoSnap]
    /\ made' = [made EXCEPT ![r] = NoIds]
    /\ widget' = [widget EXCEPT ![r] = 0]
    /\ last' = [last EXCEPT ![r] = 0]

\* One update: the outcome, the logs (those the run loaded, merged with its
\* own) and the ids the run made; the other ids stay.
Save(r) ==
    /\ pc[r] \in Outcomes
    /\ status' = pc[r]
    /\ progress' = last[r]
    /\ ids' = [i \in Ids |-> IF made[r][i] # 0 THEN made[r][i] ELSE ids[i]]
    /\ Ended(r)
    /\ UNCHANGED <<kyb, asked, effects, counters>>

\* The process dies, or the update of the document fails.
Crash(r) ==
    /\ pc[r] # "idle"
    /\ losses < MaxLosses
    /\ losses' = losses + 1
    /\ Ended(r)
    /\ UNCHANGED <<docVars, asked, effects, failures, overlaps>>

-----------------------------------------------------------------------------

Next == \/ Submit \/ AskAgain
        \/ \E r \in Runs : \/ Load(r) \/ Step(r) \/ StepFails(r)
                           \/ Save(r) \/ Crash(r)

Spec == Init /\ [][Next]_vars

\* The customer asks again until the request is approved, the super admin
\* answers every mail, and a run that does not die comes to its end.
Fairness == /\ WF_vars(Submit) /\ WF_vars(AskAgain)
            /\ WF_vars(\E r \in Runs : Load(r))
            /\ \A r \in Runs : WF_vars(Step(r)) /\ WF_vars(Save(r))

FairSpec == Spec /\ Fairness

-----------------------------------------------------------------------------
(* Properties.                                                             *)

\* No two runs overlapped so far.
Serial == overlaps = 0

Logged(step) == progress >= IndexOf(step)

\* What the logs call successful is there, for the ids the document has: the
\* plans are those of the recorded services, the DID was created with the
\* recorded SSI service and registered, the KYC service issues with it, and
\* its pages exist.  Two runs that overlap may mix their ids.
ProgressIsReal ==
    Serial =>
        /\ Logged("GIVE_DASHBOARD_ACCESS") => access
        /\ Logged("CREATE_TEAM_ROLE") => role
        /\ Logged("CREATE_SSI_SERVICE") => ids["ssi"] \in 1..ssis
        /\ Logged("CREDIT_SSI_SERVICE") => <<"ssi", ids["ssi"]>> \in plans
        /\ Logged("CREATE_DID") =>
               /\ ids["did"] \in 1..Len(dids)
               /\ dids[ids["did"]] = ids["ssi"]
        /\ Logged("REGISTER_DID") => ids["did"] \in registered
        /\ Logged("CREATE_KYC_SERVICE") =>
               /\ ids["kyc"] \in 1..Len(kycs)
               /\ kycs[ids["kyc"]] = [ssi |-> ids["ssi"], did |-> ids["did"]]
        /\ Logged("CREDIT_KYC_SERVICE") => <<"kyc", ids["kyc"]>> \in plans
        /\ Logged("SETUP_KYC_WIDGET") => ids["kyc"] \in Range(widgets)
        /\ Logged("COMPLETED") =>
               {p.type : p \in {q \in pages : q.kyc = ids["kyc"]}}
                   = IF kyb THEN {"kyc", "kyb"} ELSE {"kyc"}

\* A retry goes on where the last run stopped: something is made a second time
\* only if a run died or an answer was lost.
RepeatsAreLosses ==
    Serial => /\ ssis <= 1 + losses
              /\ Len(dids) <= 1 + losses
              /\ Len(kycs) <= 1 + losses
              /\ Len(widgets) <= 1 + losses

\* The page of the recorded service exists and no log says so: its step throws
\* whenever a retry reaches it.
Blocked == \E p \in pages : /\ p.kyc = ids["kyc"]
                            /\ ~Logged(IF p.type = "kyc"
                                       THEN "CONFIGURE_KYC_VERIFIER_PAGE"
                                       ELSE "CONFIGURE_KYB_VERIFIER_PAGE")

\* If retries go on, every request is approved in the end, unless a page was
\* made that no log knows of.
EventuallyApproved ==
    status # "none" ~> status = "APPROVED" \/ Blocked
=============================================================================
