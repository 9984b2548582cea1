---- MODULE MCEventLoop ----
EXTENDS EventLoop
\* The shell: both ferries may quit with 77 and leave it running.
Shell == {[c \in Children |-> 77]}
\* The ferry inside the shell: dnsmasq and the user's command.
Ferry == {[c \in Children |-> -1]}
ShellOrFerry == Shell \cup Ferry
====
