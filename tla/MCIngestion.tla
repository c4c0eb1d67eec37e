---------------------------- MODULE MCIngestion -----------------------------
(* Small instances of Ingestion: a few investigations and room for fewer; a
   partition whose second message is poison and whose last one escapes the
   parser, with ids for every message, redelivery and retry. *)
EXTENDS Ingestion

OneId == {1}
TwoIds == 1..2
ThreeIds == 1..3
EightIds == 1..8

None == {}
Second == {2}
Fifth == {5}

Postgres == {"postgres"}
AnyRepo == {"memory", "postgres"}
Inline == {"inline"}
EitherMode == {"inline", "temporal"}
=============================================================================
