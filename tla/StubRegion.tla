----------------------------- MODULE StubRegion -----------------------------
(***************************************************************************)
(* stubs::StubRegion (stub_region.cc): a region archetype that adds        *)
(* nothing to cyclus::RegionAgent.  The module models the objects of the   *)
(* class on a heap and every member function of the file as an action.     *)
(* RegionAgent, Agent and QueryEngine are not in the file; what the model  *)
(* takes of them is in the operators of the first section.                 *)
(***************************************************************************)
EXTENDS Naturals, FiniteSets

CONSTANTS Agents,    \* heap addresses a StubRegion can be allocated at
          Contexts,  \* the cyclus::Context objects
          Members,   \* values of the data members RegionAgent keeps
          Default,   \* what the constructor of RegionAgent leaves in them
          Elements,  \* names of the elements an input file can hold
          Impl,      \* model_impl(): the element named after the archetype
          NULL

ASSUME Default \in Members /\ Impl \in Elements /\ NULL \notin Contexts

VARIABLES agents,  \* address -> NULL or the object at it: [ctx, members]
          db,      \* the data recorded through DbInit
          ret,     \* the pointer the last call returned, or NULL
          threw    \* whether the last call threw

vars == <<agents, db, ret, threw>>

Live == {a \in Agents : agents[a] # NULL}
Free == Agents \ Live

-----------------------------------------------------------------------------
(* The base classes, as far as this file relies on them *)

\* RegionAgent(ctx): an agent of the context with the default members.
RegionAgent(ctx) == [ctx |-> ctx, members |-> Default]
\* RegionAgent::InitFrom(m): takes the members of m; the context was given
\* to the constructor.
RegionAgentInitFrom(self, m) == [self EXCEPT !.members = m.members]
\* Agent::InfileToDb(qe, di): records what the input says of the agent.
AgentInfileToDb(qe) == db \cup {qe}
\* QueryElement(name) throws when the input has no such element.
QueryElementThrows(qe, name) == name \notin qe
\* RegionAgent::str() describes the members.
RegionAgentStr(self) == self.members

-----------------------------------------------------------------------------
(* The member functions *)

NewStubRegionNowhere(ctx) == RegionAgent(NULL)
\* StubRegion(ctx) : RegionAgent(ctx)
NewStubRegion(ctx) == RegionAgent(ctx)

context(a) == agents[a].ctx
str(a) == RegionAgentStr(agents[a])

\* InitFrom(m): RegionAgent::InitFrom(m), and no member of its own.
InitFromOf(self, m) == RegionAgentInitFrom(self, m)

InitFrom(a, m) ==
    /\ a \in Live /\ m \in Live
    /\ agents' = [agents EXCEPT ![a] = InitFromOf(@, agents[m])]
    /\ ret' = NULL /\ threw' = FALSE
    /\ UNCHANGED db

\* extern "C" ConstructStubRegion(ctx): return new StubRegion(ctx).
ConstructStubRegion(a, ctx) ==
    /\ a \in Free
    /\ agents' = [agents EXCEPT ![a] = NewStubRegion(ctx)]
    /\ ret' = a /\ threw' = FALSE
    /\ UNCHANGED db

CloneSkipsInitFrom(a, m) ==
    /\ a \in Live /\ m \in Free
    /\ agents' = [agents EXCEPT ![m] = NewStubRegion(context(a))]
    /\ ret' = m /\ threw' = FALSE
    /\ UNCHANGED db
\* Clone(): m = new StubRegion(context()); m->InitFrom(this); return m.
Clone(a, m) ==
    /\ a \in Live /\ m \in Free
    /\ agents' = [agents EXCEPT ![m] = InitFromOf(NewStubRegion(context(a)), agents[a])]
    /\ ret' = m /\ threw' = FALSE
    /\ UNCHANGED db

\* InfileToDb(qe, di): the base class records the agent first; the query
\* for the archetype's own element comes second and may throw.  Its result
\* is assigned to the parameter and read by nothing.
InfileToDb(a, qe) ==
    /\ a \in Live
    /\ db' = AgentInfileToDb(qe)
    /\ threw' = QueryElementThrows(qe, Impl)
    /\ ret' = NULL
    /\ UNCHANGED agents

\* ~StubRegion()
Destroy(a) ==
    /\ a \in Live
    /\ agents' = [agents EXCEPT ![a] = NULL]
    /\ ret' = NULL /\ threw' = FALSE
    /\ UNCHANGED db

\* The simulation configures an agent through the setters of RegionAgent.
Configure(a, v) ==
    /\ a \in Live
    /\ agents' = [agents EXCEPT ![a].members = v]
    /\ ret' = NULL /\ threw' = FALSE
    /\ UNCHANGED db

Init ==
    /\ agents = [a \in Agents |-> NULL]
    /\ db = {}
    /\ ret = NULL
    /\ threw = FALSE

Next ==
    \/ \E a \in Agents, ctx \in Contexts : ConstructStubRegion(a, ctx)
    \/ \E a, m \in Agents : Clone(a, m) \/ InitFrom(a, m)
    \/ \E a \in Agents, qe \in SUBSET Elements : InfileToDb(a, qe)
    \/ \E a \in Agents, v \in Members : Configure(a, v)
    \/ \E a \in Agents : Destroy(a)

Spec == Init /\ [][Next]_vars

-----------------------------------------------------------------------------
(* Properties *)

\* Every object is an agent of a real context with members of the right
\* kind, and a pointer that was returned points to an object: neither
\* ConstructStubRegion nor Clone returns or builds an agent without a
\* context.
TypeOK ==
    /\ agents \in [Agents -> {NULL} \cup [ctx : Contexts, members : Members]]
    /\ db \subseteq SUBSET Elements
    /\ ret \in Live \cup {NULL}
    /\ threw \in BOOLEAN

\* Clone gives the caller a new object that reads as the prototype does and
\* lives in the prototype's context, and leaves every object that existed,
\* the prototype included, as it was.  It takes the two steps of Clone (the
\* constructor on context() and InitFrom(this)) and the returned pointer to
\* get this right: a clone built without InitFrom has the default members,
\* and a Clone that returned this would hand the caller the prototype.
CloneIsACopy ==
    [][\A a, m \in Agents : Clone(a, m) =>
          /\ ret' \notin Live
          /\ str(ret)' = str(a)
          /\ context(ret)' = context(a)
          /\ \A o \in Live : agents'[o] = agents[o]]_vars

=============================================================================
