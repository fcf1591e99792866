\* Three pipe threads and two host threads count down one completion signal;
\* the waiter on zero is expected to return.
CONSTANTS
  Pipes = {p1, p2, p3}
  Hosts = {h1, h2}
SPECIFICATION Spec
PROPERTY WaiterReleased
CHECK_DEADLOCK FALSE
