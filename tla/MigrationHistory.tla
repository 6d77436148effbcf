-------------------------- MODULE MigrationHistory --------------------------
(* What a database under pkg/migrate may go through: every migration that    *)
(* takes effect stands in the directory of some build, after migrations that *)
(* have all taken effect before it, and none takes effect a second time when *)
(* the database can roll schema changes back.  If builds only append to one  *)
(* main line, then the database goes through that line in its order.         *)
EXTENDS Naturals, Sequences

VARIABLES plan,            \* plan[r]: the migrations of the build that r runs
          transactional,   \* schema changes can be rolled back
          log              \* the migrations whose SQL has taken effect, in order

Effective == {log[i] : i \in 1 .. Len(log)}

Init == log = << >>

Apply ==
  /\ \E r \in DOMAIN plan : \E k \in 1 .. Len(plan[r]) :
       /\ \A j \in 1 .. (k - 1) : plan[r][j] \in Effective
       /\ transactional => \A m \in Effective : m.version # plan[r][k].version
       /\ log' = Append(log, plan[r][k])
  /\ UNCHANGED <<plan, transactional>>

Spec == Init /\ [][Apply]_<<plan, transactional, log>>
=============================================================================
