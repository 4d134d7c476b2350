----------------------------- MODULE QueryDepth -----------------------------
(***************************************************************************)
(* graphqlQueryDepth (src/graphql.go): the depth of a GraphQL document by  *)
(* counting braces, without parsing it.  A document is a sequence of       *)
(* tokens: braces, braces inside string values or comments, and the rest.  *)
(* The counter does not know the two kinds of braces apart.                *)
(***************************************************************************)
EXTENDS Integers, Sequences, FiniteSets

Token == {"open", "close", "quotedOpen", "quotedClose", "name"}

Opening == {"open", "quotedOpen"}
Closing == {"close", "quotedClose"}

Greatest(S) == CHOOSE n \in S : \A k \in S : k <= n

\* curDepth after each token; a brace that closes nothing is ignored
BadBraceDepth(q) ==
    [i \in 0..Len(q) |->
        Cardinality({k \in 1..i : q[k] \in Opening})
            - Cardinality({k \in 1..i : q[k] \in Closing})]
BraceDepth(q) ==
    LET cur[i \in 0..Len(q)] ==
          IF i = 0 THEN 0
          ELSE IF q[i] \in Opening THEN cur[i - 1] + 1
          ELSE IF q[i] \in Closing /\ cur[i - 1] > 0 THEN cur[i - 1] - 1
          ELSE cur[i - 1]
    IN  cur

\* maxDepth - 1: the outermost pair is no field level
GraphqlQueryDepth(q) == Greatest({BraceDepth(q)[i] : i \in 0..Len(q)}) - 1

(***************************************************************************)
(* What is to be counted: the levels some stretch of the document opens    *)
(* and leaves open, by braces that are braces.                             *)
(***************************************************************************)
Levels(q, i, j) ==
    Cardinality({k \in i..j : q[k] = "open"}) - Cardinality({k \in i..j : q[k] = "close"})

Nesting(q) == Greatest({0} \cup {Levels(q, i, j) : i, j \in 1..Len(q)}) - 1

\* No string and no comment has a closing brace; or a brace at all
ClosesTruly(q) == \A k \in 1..Len(q) : q[k] # "quotedClose"
Plain(q) == \A k \in 1..Len(q) : q[k] \notin {"quotedOpen", "quotedClose"}

\* every brace that is one has its partner
Balanced(q) ==
    /\ \A j \in 1..Len(q) : Levels(q, 1, j) >= 0
    /\ Levels(q, 1, Len(q)) = 0
=============================================================================
