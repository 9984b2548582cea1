---- MODULE MCAbcLink ----
EXTENDS AbcLink
MCSchedule == <<0, 1>>
====
