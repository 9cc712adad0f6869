------------------------------ MODULE Exceptions ------------------------------
(***************************************************************************)
(* The exception classes of cpp-pthread (src/include/pthread/              *)
(* exceptions.hpp).  There are two families: the wrappers of POSIX calls   *)
(* throw a pthread_exception, the queue throws a queue_exception, and the  *)
(* two have nothing but std::exception ("exception" below) in common.      *)
(***************************************************************************)

PosixErrors == {"timeout_exception", "mutex_exception", "read_write_lock_exception",
                "condition_variable_exception", "thread_exception"}
QueueErrors == {"queue_full", "queue_timeout"}
Families    == {"pthread_exception", "queue_exception"}
Classes     == PosixErrors \cup QueueErrors \cup Families \cup {"exception"}

(* The class a class is derived from.                                      *)
QueueErrorsApart(c) == IF c \in PosixErrors THEN "pthread_exception" ELSE "exception"  \* mutant
Base(c) == IF c \in PosixErrors THEN "pthread_exception"
           ELSE IF c \in QueueErrors THEN "queue_exception"
           ELSE "exception"

(* A handler for class d catches an object of class c.                     *)
IsA(c, d) == d \in {c, Base(c), Base(Base(c))}
Caught(c, handlers) == \E d \in handlers : IsA(c, d)

=============================================================================
