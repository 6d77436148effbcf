------------------------------ MODULE MCMigrate ------------------------------
(* Instances of Migrate: directories of successive and of diverging builds.  *)
EXTENDS Migrate, TLC

F(v, s) == [version |-> v, sum |-> s, isDir |-> FALSE, isSQL |-> TRUE]
Readme == [version |-> 0, sum |-> "a", isDir |-> FALSE, isSQL |-> FALSE]
Subdir == [version |-> 2, sum |-> "a", isDir |-> TRUE, isSQL |-> TRUE]

\* Releases that only append.
Rollout == {{F(1, "a"), Readme}, {F(1, "a"), F(2, "a")}, {F(1, "a"), F(2, "a"), F(3, "a"), Subdir}}

\* A migration that was edited, one that was added in between, and a version
\* that two files share.
Diverged == {{F(1, "a"), F(3, "a")}, {F(1, "a"), F(3, "b")}, {F(1, "a"), F(2, "a"), F(3, "a")},
             {F(1, "a"), F(1, "b"), F(2, "a")}}

\* Three runners of one deployment, or two with diverging builds and a third
\* whose directory is empty.  It does not matter which runner has which build.
Empty == {}
AllBuilds == Rollout \union Diverged \union {Empty}
PlansOf(builds) == UNION {FromFS(files) : files \in builds}
OneDeployment ==
  \/ /\ \A r \in Runners : plan[r] \in PlansOf(Rollout)
     /\ Len(plan[1]) <= Len(plan[2]) /\ Len(plan[2]) <= Len(plan[3])
  \/ /\ \A r \in 1 .. 2 : plan[r] \in PlansOf(Diverged)
     /\ Len(plan[1]) <= Len(plan[2]) /\ plan[3] = << >>
DeploymentInit == Init /\ OneDeployment
DeploymentSpec == DeploymentInit /\ [][Next]_vars /\ Fairness
=============================================================================
