--------------------------- MODULE MCAuthSession ---------------------------
EXTENDS AuthSession, TLC

CONSTANTS s1, s2, a, b

BrowserSymmetry == Permutations(Tab) \cup Permutations(Session)

\* Where the exploration stops: two tabs that share one session as time passes, the
\* account unchanged; or one tab, two sessions and a change of the account at once.
Used == left \cup lost \cup overtaken \cup suspected \cup {s \in Session : Mentioned(s)}
Busy == {m.tab : m \in reqs} \cup {t \in Tab : tabs[t].step # "start"}
Changed == user.pw + user.offs > 0
TabsOrChange == \/ Cardinality(Used) <= 1 /\ ~Changed
                \/ Cardinality(Busy) <= 1 /\ now = 0
=============================================================================
