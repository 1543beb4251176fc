------------------------------- MODULE Policies -------------------------------
(* Path policies and route rules: what administrators store, from lists that   *)
(* may have grown old, and what the gateway makes of the rows when a request   *)
(* comes.  A path is the sequence of its segments, an empty last one standing  *)
(* for a slash at the end; letters are folded.                                 *)
EXTENDS Integers, Sequences, FiniteSets, FiniteSetsExt, SequencesExt

CONSTANTS
  Clients, Ids,
  PolicyForms, RuleForms,     \* what administrators fill in
  Defaults,                   \* Defaults: forms of policies
  Paths, Words,               \* paths that are asked for, and the words there are
  Longer,                     \* pairs of a word and a beginning of it
  Length, Rank,               \* of patterns: how long, and their order as text
  MaxTime, MaxTurns,          \* bounds
  Nothing

VARIABLES
  policies, rules,   \* tables: rows by id
  seen,              \* the tables as each client last listed them
  now, version,      \* the clock in milliseconds; saves so far
  blind,             \* conditional updates: versions meant and versions replaced
  turns

vars == <<policies, rules, seen, now, version, blind, turns>>

Turn == turns < MaxTurns /\ turns' = turns + 1
Rows(table) == {table[i] : i \in {j \in Ids : table[j] # Nothing}}
Free(table) == {i \in Ids : table[i] = Nothing}

-----------------------------------------------------------------------------
(* Matching *)

\* What is after the last slash of a path that ends with one.
NoWord == ""

\* normalizePath: slashes at the end go, but for the root.
Normalized(segs) ==
  IF segs = <<NoWord>> THEN segs
  ELSE SubSeq(segs, 1, SelectLastInSeq(segs, LAMBDA word : word # NoWord))
\* Of a pattern: a star at its end is no slash.
NormalPath(path) == IF path.star THEN path ELSE [path EXCEPT !.segs = Normalized(@)]

Parameter == "{id}"
Begins(word, prefix) == prefix = NoWord \/ word = prefix \/ <<word, prefix>> \in Longer

\* MatchPath: a star at the end matches any continuation of the text, otherwise
\* the segments match one by one, a parameter any that is not empty.
MatchPath_Faulty(pattern, path) ==
  LET p == pattern.segs
      n == Len(p)
  IN IF pattern.star
     THEN /\ Len(path) >= n
          /\ n > 0 => /\ \A i \in 1..n - 1 : path[i] = p[i]
                      /\ Begins(path[n], p[n])
     ELSE LET q == Normalized(p)
              r == Normalized(path)
          IN Len(q) = Len(r) /\ \A i \in DOMAIN q : q[i] = Parameter \/ q[i] = r[i]
MatchPath(pattern, path) ==
  LET p == pattern.segs
      n == Len(p)
  IN IF pattern.star
     THEN /\ Len(path) >= n
          /\ n > 0 => /\ \A i \in 1..n - 1 : path[i] = p[i]
                      /\ Begins(path[n], p[n])
     ELSE LET q == Normalized(p)
              r == Normalized(path)
          IN /\ Len(q) = Len(r)
             /\ \A i \in DOMAIN q : IF q[i] = Parameter THEN r[i] # NoWord ELSE q[i] = r[i]

MethodMatches(rule, method) == rule \in {"*", method}
TransportMatches(rule, transport) == rule \in {"any", transport}

-----------------------------------------------------------------------------
(* What the rows say *)

\* The first of a lexicographic order given by the differences of two rows.
Precedes(differences) ==
  LET i == SelectInSeq(differences, LAMBDA d : d # 0) IN i # 0 /\ differences[i] > 0

Bit(b) == IF b THEN 1 ELSE 0
MethodRank(m) == IF m = "*" THEN 0 ELSE 1   \* as text, and how exact it is

\* FirstMatch's order, and that of selectRule.
PolicyBefore_Faulty(a, b) ==
  Precedes(<<a.priority - b.priority, Bit(a.action = "deny") - Bit(b.action = "deny"),
             MethodRank(b.method) - MethodRank(a.method), Rank[b.path] - Rank[a.path],
             b.id - a.id>>)
PolicyBefore(a, b) ==
  Precedes(<<Bit(a.action = "deny") - Bit(b.action = "deny"), a.priority - b.priority,
             MethodRank(b.method) - MethodRank(a.method), Rank[b.path] - Rank[a.path],
             b.id - a.id>>)

RuleBefore(a, b) ==
  Precedes(<<a.priority - b.priority,
             Bit(a.transport # "any") - Bit(b.transport # "any"),
             MethodRank(a.method) - MethodRank(b.method),
             Length[a.path] - Length[b.path], Rank[b.path] - Rank[a.path], b.id - a.id>>)

PoliciesFor(table, method, path) ==
  {r \in Rows(table) : r.enabled /\ MethodMatches(r.method, method) /\ MatchPath(r.path, path)}
RulesFor(table, method, path, transport) ==
  {r \in Rows(table) : /\ r.enabled /\ MethodMatches(r.method, method)
                       /\ MatchPath(r.path, path) /\ TransportMatches(r.transport, transport)}

FirstOf(set, Before(_, _)) ==
  IF set = {} THEN Nothing
  ELSE LET firsts == {r \in set : \A s \in set \ {r} : Before(r, s)}
       IN IF firsts = {} THEN Nothing ELSE CHOOSE r \in firsts : TRUE

\* Decide and Select
Decide(table, method, path) ==
  LET p == FirstOf(PoliciesFor(table, method, path), PolicyBefore)
  IN p # Nothing => p.action # "deny"
SelectRule(table, method, path, transport) ==
  FirstOf(RulesFor(table, method, path, transport), RuleBefore)

\* CheckPathPolicy and ListRouteRules read the enabled rows, the previews all of
\* them; a preview without a transport means ordinary requests.
OnlyEnabled(table) ==
  [i \in Ids |-> IF table[i] # Nothing /\ table[i].enabled THEN table[i] ELSE Nothing]
CheckPathPolicy(method, path) == Decide(OnlyEnabled(policies), method, path)
Routed(method, path, transport) == SelectRule(OnlyEnabled(rules), method, path, transport)
PreviewPolicy(method, path) == Decide(policies, method, path)
PreviewRouteRule(method, path, transport) ==
  SelectRule(rules, method, path, IF transport = "any" THEN "http" ELSE transport)

-----------------------------------------------------------------------------
(* Initial state *)

EmptyTable == [i \in Ids |-> Nothing]

Init ==
  /\ policies = EmptyTable /\ rules = EmptyTable
  /\ seen = [c \in Clients |-> [policies |-> EmptyTable, rules |-> EmptyTable]]
  /\ now = 0 /\ version = 0 /\ blind = {} /\ turns = 0

-----------------------------------------------------------------------------
(* Rows *)

\* UpsertPolicy stores the normalized identity; UpsertRouteRule stores a rule for
\* ordinary requests as one for all of them.
PolicyRow(form, id) ==
  [id |-> id, method |-> form.method,
   path |-> NormalPath(form.path), action |-> form.action,
   priority |-> form.priority, enabled |-> form.enabled,
   installed |-> FALSE, updated |-> now, version |-> version + 1]
RuleRow(form, id) ==
  [id |-> id, method |-> form.method, path |-> form.path,
   transport |-> IF form.transport = "http" THEN "any" ELSE form.transport,
   target |-> form.target, priority |-> form.priority, enabled |-> form.enabled,
   updated |-> now, version |-> version + 1]

Saved == version' = version + 1 /\ UNCHANGED <<seen, now>>

\* The conditional part: the row must be the one of the time the client saw.
Meant_Faulty(c, table, old, conditional) == TRUE
Meant(c, table, old, conditional) ==
  conditional => old.updated = seen[c][table][old.id].updated
Note(c, table, old, conditional) ==
  blind' = IF conditional THEN blind \cup {<<seen[c][table][old.id], old>>} ELSE blind

\* handleListPolicies and handleListRouteRules
List(c) ==
  /\ seen' = [seen EXCEPT ![c] = [policies |-> policies, rules |-> rules]]
  /\ seen' # seen
  /\ UNCHANGED <<policies, rules, now, version, blind, turns>>

CreatePolicy(form) ==
  /\ Free(policies) # {} /\ Turn
  /\ policies' = [policies EXCEPT ![Min(Free(policies))] = PolicyRow(form, Min(Free(policies)))]
  /\ Saved /\ UNCHANGED <<rules, blind>>

UpdatePolicy(c, i, form, conditional) ==
  /\ policies[i] # Nothing /\ seen[c].policies[i] # Nothing /\ Turn
  /\ Meant(c, "policies", policies[i], conditional)
  /\ policies' = [policies EXCEPT ![i] = PolicyRow(form, i)]
  /\ Note(c, "policies", policies[i], conditional)
  /\ Saved /\ UNCHANGED rules

DeletePolicy(i) ==
  /\ policies[i] # Nothing /\ Turn
  /\ policies' = [policies EXCEPT ![i] = Nothing]
  /\ UNCHANGED <<rules, seen, now, version, blind>>

\* InstallDefaultPolicies: those whose identity no row has, whatever it says.
Identity(row) == <<row.method, NormalPath(row.path)>>
Missing_Faulty == Defaults
Missing == {d \in Defaults : \A r \in Rows(policies) : Identity(r) # Identity(d)}

InstallDefaults ==
  /\ Missing # {} /\ Cardinality(Missing) <= Cardinality(Free(policies)) /\ Turn
  /\ LET new == SetToSeq(Missing)
         ids == SetToSortSeq(Free(policies), <)
     IN policies' = [i \in Ids |->
          IF \E n \in DOMAIN new : ids[n] = i
          THEN LET n == CHOOSE n \in DOMAIN new : ids[n] = i
               IN [PolicyRow(new[n], i) EXCEPT !.installed = TRUE]
          ELSE policies[i]]
  /\ Saved /\ UNCHANGED <<rules, blind>>

CreateRouteRule(form) ==
  /\ Free(rules) # {} /\ Turn
  /\ rules' = [rules EXCEPT ![Min(Free(rules))] = RuleRow(form, Min(Free(rules)))]
  /\ Saved /\ UNCHANGED <<policies, blind>>

UpdateRouteRule(c, i, form, conditional) ==
  /\ rules[i] # Nothing /\ seen[c].rules[i] # Nothing /\ Turn
  /\ Meant(c, "rules", rules[i], conditional)
  /\ rules' = [rules EXCEPT ![i] = RuleRow(form, i)]
  /\ Note(c, "rules", rules[i], conditional)
  /\ Saved /\ UNCHANGED policies

DeleteRouteRule(i) ==
  /\ rules[i] # Nothing /\ Turn
  /\ rules' = [rules EXCEPT ![i] = Nothing]
  /\ UNCHANGED <<policies, seen, now, version, blind>>

Tick == now < MaxTime /\ now' = now + 1
        /\ UNCHANGED <<policies, rules, seen, version, blind, turns>>

-----------------------------------------------------------------------------

\* A pattern is a sequence of words, with an order and a length as text; the defaults
\* are unique (TestDefaultsAreUnique).
Assumption ==
  /\ Ids \subseteq Nat /\ IsFiniteSet(Ids) /\ IsFiniteSet(Defaults)
  /\ \A path \in Paths : path \in Seq(Words)
  /\ \A f \in PolicyForms \cup Defaults :
       /\ f.path \in [segs : Seq(Words \cup {Parameter}), star : BOOLEAN]
       /\ f.priority \in Int /\ Rank[NormalPath(f.path)] \in Int
  /\ \A f \in RuleForms :
       f.priority \in Int /\ Length[f.path] \in Int /\ Rank[f.path] \in Int
  /\ \A d, e \in Defaults : Identity(d) = Identity(e) => d = e

Next ==
  \/ \E c \in Clients : List(c)
  \/ \E f \in PolicyForms : CreatePolicy(f)
  \/ \E c \in Clients, i \in Ids, f \in PolicyForms, b \in BOOLEAN : UpdatePolicy(c, i, f, b)
  \/ \E i \in Ids : DeletePolicy(i)
  \/ InstallDefaults
  \/ \E f \in RuleForms : CreateRouteRule(f)
  \/ \E c \in Clients, i \in Ids, f \in RuleForms, b \in BOOLEAN : UpdateRouteRule(c, i, f, b)
  \/ \E i \in Ids : DeleteRouteRule(i)
  \/ Tick

Spec == Init /\ [][Next]_vars

-----------------------------------------------------------------------------
(* Properties *)

Methods == {"GET", "POST"}
Transports == {"http", "websocket"}

TypeOK ==
  /\ \A i \in Ids : policies[i] # Nothing => policies[i].id = i /\ policies[i].updated <= now
  /\ \A i \in Ids : rules[i] # Nothing => rules[i].id = i /\ rules[i].updated <= now

\* An update that names the time of the row it was made for replaces the version
\* the client saw, unless that version was saved anew within a millisecond.
NothingUnseenReplaced ==
  \A b \in blind : b[1].version = b[2].version \/ b[1].updated = b[2].updated

\* Installing the defaults, as often as one likes, never adds a second row of an
\* identity, and never brings a row to an identity an administrator has filled.
DefaultsOnce ==
  \A i, j \in Ids :
    /\ i # j /\ policies[i] # Nothing /\ policies[j] # Nothing
    /\ policies[i].installed /\ Identity(policies[i]) = Identity(policies[j])
    => ~policies[j].installed /\ policies[j].version > policies[i].version

\* A request is refused just when an enabled policy for it says so, whatever else
\* the policies say and in whatever order they are read.
DenialWins ==
  \A m \in Methods, p \in Paths :
    CheckPathPolicy(m, p) <=> \A r \in PoliciesFor(policies, m, p) : r.action # "deny"

\* Of the rules for a request exactly one is the first: none of them has a higher
\* priority, and at the same priority none names the transport when it does not.
RuleIsFirst ==
  \A m \in Methods, p \in Paths, t \in Transports :
    LET all == RulesFor(rules, m, p, t)
        r == Routed(m, p, t)
    IN /\ r = Nothing <=> all = {}
       /\ \A s \in all :
            /\ s.priority <= r.priority
            /\ (s.priority = r.priority /\ s.transport = t) => r.transport = t

\* What the console previews is what the gateway does.
PreviewsTell ==
  \A m \in Methods, p \in Paths :
    /\ PreviewPolicy(m, p) <=> CheckPathPolicy(m, p)
    /\ \A t \in Transports : PreviewRouteRule(m, p, t) = Routed(m, p, t)

\* An exact pattern matches the paths that are it with words for its parameters.
PatternsMeanWords ==
  turns = 0 =>
    \A f \in PolicyForms \cup Defaults, path \in Paths :
      ~f.path.star =>
        LET p == Normalized(f.path.segs)
            holes == {i \in DOMAIN p : p[i] = Parameter}
        IN MatchPath(f.path, path) <=>
             \E fill \in [holes -> Words \ {NoWord}] :
               Normalized([i \in DOMAIN p |-> IF i \in holes THEN fill[i] ELSE p[i]])
                 = Normalized(path)

PoliciesSound ==
  /\ TypeOK /\ NothingUnseenReplaced /\ DefaultsOnce /\ DenialWins /\ RuleIsFirst
  /\ PreviewsTell /\ PatternsMeanWords
=============================================================================
