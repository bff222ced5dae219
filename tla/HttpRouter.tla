----------------------------- MODULE HttpRouter -----------------------------
(***************************************************************************)
(* http::HttpRouter (extensions/http): routes are added one by one, and    *)
(* after each of them route() is compared, for every path of a small set,  *)
(* with what the patterns say.                                             *)
(*                                                                         *)
(* A path is a sequence of segments, "" between two slashes; a pattern is  *)
(* a sequence of [k, n]: k = 0 for a static segment n, 1 for ":n", 2 for   *)
(* "*n".  A node of the radix tree is the pattern that leads to it.  The   *)
(* maps of children go by name; the model leaves the order of names open,  *)
(* and the search is the set of its outcomes.                              *)
(***************************************************************************)
EXTENDS Naturals, Sequences, FiniteSets, SequencesExt

CONSTANTS Patterns,     \* the patterns that may be added
          Regexes,      \* the regexes that may be added, each the set of paths it matches
          Methods,      \* the methods
          Paths,        \* the paths that are looked up
          MaxRoutes,    \* bound on the routes
          MaxSegments   \* kMaxPathSegments

VARIABLES exact, radix,  \* exactRoutes_ and radixRoot_: sets of [path, m, h], where h is
                         \* the number of the route that has the handler
          regex,         \* regexRoutes_: a sequence of [match, entry]
          count          \* routes added so far
vars == <<exact, radix, regex, count>>

Init == exact = {} /\ radix = {} /\ regex = <<>> /\ count = 0
-----------------------------------------------------------------------------
(* addMethodToEntry(): GET brings HEAD with it, unless there is one. *)
AddMethod(t, p, m, h) ==
    LET own == { e \in t : ~(e.path = p /\ e.m = m) } \cup {[path |-> p, m |-> m, h |-> h]}
    IN  IF m = "GET" /\ ~\E e \in own : e.path = p /\ e.m = "HEAD"
          THEN own \cup {[path |-> p, m |-> "HEAD", h |-> h]} ELSE own

(* insertRadix(): the node is at the first wildcard, or at the end; the    *)
(* patterns here have no empty segment.                                    *)
UpTo(s, Stop(_)) == IF \E i \in 1..Len(s) : Stop(s[i])
                      THEN CHOOSE i \in 1..Len(s) : Stop(s[i]) /\ \A j \in 1..(i - 1) : ~Stop(s[j])
                      ELSE Len(s)
NodeOf(p) == SubSeq(p, 1, UpTo(p, LAMBDA s : s.k = 2))

AddRoute(p, m) ==
    /\ count < MaxRoutes /\ count' = count + 1
    /\ IF \A i \in 1..Len(p) : p[i].k = 0
         THEN exact' = AddMethod(exact, p, m, count + 1) /\ UNCHANGED radix
         ELSE radix' = AddMethod(radix, NodeOf(p), m, count + 1) /\ UNCHANGED exact
    /\ UNCHANGED regex

(* A regex that is there already takes the methods in. *)
AddRouteRegex(match, m) ==
    /\ count < MaxRoutes /\ count' = count + 1
    /\ LET at == SelectInSeq(regex, LAMBDA r : r.match = match)
           old == IF at = 0 THEN {} ELSE regex[at].entry
           new == [match |-> match, entry |-> AddMethod(old, <<>>, m, count + 1)]
       IN  regex' = IF at = 0 THEN Append(regex, new) ELSE [regex EXCEPT ![at] = new]
    /\ UNCHANGED <<exact, radix>>

Next == \/ \E p \in Patterns, m \in Methods : AddRoute(p, m)
        \/ \E s \in Regexes, m \in Methods : AddRouteRegex(s, m)
Spec == Init /\ [][Next]_vars
-----------------------------------------------------------------------------
Nodes == { e.path : e \in radix }
Children(node, k) ==
    { p[Len(node) + 1].n : p \in { q \in Nodes : /\ Len(q) > Len(node)
                                                 /\ SubSeq(q, 1, Len(node)) = node
                                                 /\ q[Len(node) + 1].k = k } }
Child(node, k, n) == Append(node, [k |-> k, n |-> n])

Bind(params, n, v) == { b \in params : b.n # n } \cup {[n |-> n, v |-> v]}
BugErase(params, n) == params
Erase(params, n) == { b \in params : b.n # n }
NoMatch(params) == [found |-> FALSE, at |-> <<>>, params |-> params]
Match(node, params) == [found |-> TRUE, at |-> node, params |-> params]

(* matchRadix(): the static child, then the parameters in any order, each  *)
(* taken back when it fails, then a wildcard.                              *)
RECURSIVE MatchRadix(_, _, _)
RECURSIVE TryParams(_, _, _, _)
RECURSIVE TryAll(_, _, _, _)

Wildcards(node, rest, params) ==
    IF Children(node, 2) = {} THEN {NoMatch(params)}
    ELSE { Match(Child(node, 2, w), Bind(params, w, rest)) : w \in Children(node, 2) }

TryAll(node, path, params, outcomes) ==
    UNION { IF o.found THEN {o} ELSE TryParams(node, path, o.params, Children(node, 1)) : o \in outcomes }

TryParams(node, path, params, names) ==
    IF names = {} THEN Wildcards(node, path, params)
    ELSE UNION { UNION { IF o.found THEN {o}
                           ELSE TryParams(node, path, Erase(o.params, n), names \ {n}) :
                         o \in MatchRadix(Child(node, 1, n), Tail(path), Bind(params, n, <<Head(path)>>)) } :
                 n \in names }

MatchRadix(node, path, params) ==
    IF Len(node) > MaxSegments THEN {NoMatch(params)}
    ELSE IF path = <<>> \/ Head(path) = ""
      THEN IF Children(node, 2) # {} THEN Wildcards(node, <<>>, params)
           ELSE {IF node \in Nodes THEN Match(node, params) ELSE NoMatch(params)}
    ELSE TryAll(node, path, params,
                IF Head(path) \in Children(node, 0)
                  THEN MatchRadix(Child(node, 0, Head(path)), Tail(path), params)
                  ELSE {NoMatch(params)})

(* route(): what it may return: a reason, the handler and the parameters. *)
Lookup(t, p, m, params) ==
    IF \E e \in t : e.path = p /\ e.m = m
      THEN [reason |-> "Ok", params |-> params, at |-> p,
            h |-> (CHOOSE e \in t : e.path = p /\ e.m = m).h]
      ELSE [reason |-> "MethodNotAllowed", params |-> params, at |-> p, h |-> 0]

Static(path) == [i \in 1..Len(path) |-> [k |-> 0, n |-> path[i]]]
LookupRegex(path, m) ==
    LET at == SelectInSeq(regex, LAMBDA r : path \in r.match) IN
    IF at = 0 THEN [reason |-> "NotFound", params |-> {}, at |-> <<>>, h |-> 0]
    ELSE Lookup(regex[at].entry, <<>>, m, {})

Route(m, path) ==
    IF \E e \in exact : e.path = Static(path)
      THEN {Lookup(exact, Static(path), m, {})}
      ELSE { IF o.found THEN Lookup(radix, o.at, m, o.params) ELSE LookupRegex(path, m) :
             o \in MatchRadix(<<>>, path, {}) }
-----------------------------------------------------------------------------
(* The patterns, read as HttpRouter.h describes them: a segment of a path  *)
(* for each segment of the pattern, and any number of them for a wildcard. *)
(* An empty segment ends the path.                                         *)
Segments(path) == UpTo(path, LAMBDA s : s = "") -
                  (IF \E i \in 1..Len(path) : path[i] = "" THEN 1 ELSE 0)
Wild(p) == p # <<>> /\ Last(p).k = 2
Own(p) == IF Wild(p) THEN Len(p) - 1 ELSE Len(p)
Matches(p, path) ==
    /\ Own(p) <= MaxSegments
    /\ IF Wild(p) THEN Segments(path) >= Own(p) ELSE Segments(path) = Own(p)
    /\ \A i \in 1..Own(p) : p[i].k = 0 => p[i].n = path[i]
Bindings(p, path) ==
    { [n |-> p[i].n, v |-> <<path[i]>>] : i \in { j \in 1..Own(p) : p[j].k = 1 } }
    \cup (IF ~Wild(p) THEN {}
          ELSE {[n |-> Last(p).n, v |-> IF Segments(path) = Own(p) THEN <<>>
                                        ELSE SubSeq(path, Len(p), Len(path))]})

(* p comes before q: where they part, a static segment is before a         *)
(* parameter, a parameter before a wildcard, and a wildcard before the end.*)
(* Parameters with different names are in no order.                        *)
Kind(p, i) == IF i > Len(p) THEN 3 ELSE p[i].k
Before(p, q) == \E i \in 1..(Len(p) + 1) : /\ Kind(p, i) < Kind(q, i)
                                           /\ \A j \in 1..(i - 1) : p[j] = q[j]

(* route() finds a pattern if one matches, the first one in that order,    *)
(* with the parameters of that pattern and of no branch that was tried     *)
(* before it, and only then takes the first regex that was added and       *)
(* matches.                                                                *)
RouteCorrect ==
    \A path \in Paths, m \in Methods : \A r \in Route(m, path) :
        ~(\E e \in exact : e.path = Static(path)) =>
           IF \E p \in Nodes : Matches(p, path)
             THEN /\ r.at \in Nodes /\ Matches(r.at, path) /\ r.params = Bindings(r.at, path)
                  /\ \A p \in Nodes : Matches(p, path) => ~Before(p, r.at)
                  /\ r.reason = "Ok" => \E e \in radix : e.path = r.at /\ e.m = m /\ e.h = r.h
             ELSE /\ r.params = {}
                  /\ \A i \in 1..Len(regex) :
                        path \in regex[i].match =>
                           \/ \E j \in 1..(i - 1) : path \in regex[j].match
                           \/ r.reason = "Ok" /\ \E e \in regex[i].entry : e.m = m /\ e.h = r.h
                           \/ r.reason = "MethodNotAllowed" /\ \A e \in regex[i].entry : e.m # m
=============================================================================
