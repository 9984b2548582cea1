---- MODULE MCLinkFerry ----
EXTENDS LinkFerry
MCSchedule == <<1, 1, 3>>
====
