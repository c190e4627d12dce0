------------------------------- MODULE Stubs --------------------------------
(***************************************************************************)
(* The functions of lang_c/libc/src that are there for programs to be      *)
(* linked with: they change nothing and their results do not depend on the *)
(* state.  Functions are their names; NULL is 0.                           *)
(***************************************************************************)
EXTENDS Integers

(* Threads: nothing is started, locked or waited for. *)
pthread ==
  {"pthread_mutexattr_init", "pthread_mutexattr_destroy",
   "pthread_mutexattr_getkind_np", "pthread_mutexattr_setkind_np",
   "pthread_mutexattr_settype", "pthread_mutex_init", "pthread_mutex_lock",
   "pthread_mutex_unlock", "pthread_mutex_trylock", "pthread_mutex_destroy",
   "pthread_cond_init", "pthread_cond_destroy", "pthread_cond_signal",
   "pthread_cond_broadcast", "pthread_cond_timedwait", "pthread_cond_wait",
   "pthread_rwlock_init", "pthread_rwlock_destroy", "pthread_rwlock_rdlock",
   "pthread_rwlock_tryrdlock", "pthread_rwlock_wrlock",
   "pthread_rwlock_trywrlock", "pthread_rwlockattr_init",
   "pthread_rwlockattr_destroy", "pthread_rwlock_unlock", "pthread_detach",
   "pthread_once", "pthread_attr_init", "pthread_attr_destroy",
   "pthread_attr_setstacksize", "pthread_create", "pthread_join",
   "pthread_self", "pthread_equal"}

(* Files: nothing is written, nothing can be opened. *)
stdio ==
  {"puts", "fputs", "putchar", "printf", "fprintf", "sprintf", "swprintf",
   "snprintf", "asprintf", "vfprintf", "vsnprintf", "scanf", "fscanf",
   "sscanf", "fflush", "ferror", "fread", "fclose", "fopen", "feof",
   "fwrite", "fgets", "ftell", "popen", "pclose"}

time == {"clock_gettime", "time", "timegm", "mktime", "localtime_r", "gmtime_r",
         "nanosleep", "ctime"}

unistd == {"close", "read", "getpid"}

sys_resource == {"getrlimit", "getrusage", "setrlimit"}

environment == {"getenv", "setenv", "unsetenv"}

(* The predicates of E-ACSL about memory: it is always valid. *)
eacsl_predicates ==
  {"__e_acsl_valid_read", "__e_acsl_valid", "__e_acsl_initialized",
   "__e_acsl_freeable", "__e_acsl_separated"}

Zero ==
  pthread \cup stdio \cup time \cup unistd \cup sys_resource \cup environment
    \cup {"setjmp", "posix_memalign"}

StubResult ==
  [fn \in Zero \cup eacsl_predicates \cup {"getopt", "getchar"} |->
     IF fn \in Zero THEN 0
     ELSE IF fn = "getopt" THEN -1
     ELSE IF fn = "getchar" THEN 32
     ELSE 1]

(* The functions of math.c but fabsf return their first argument. *)
math_functions ==
  {"sin", "cos", "floor", "round", "powf", "floorf", "ceil", "sqrt", "roundf",
   "log2f", "sqrtf", "fabsf"}
math(fn, x) == IF fn = "fabsf" /\ x < 0 THEN -x ELSE x

(* What E-ACSL reports to its monitor, which does not listen. *)
eacsl_memory ==
  {"memory_init", "memory_clean", "store_block", "store_block_duplicate",
   "delete_block", "offset", "base_addr", "block_length"}
eacsl_initialization == {"mark_readonly", "initialize", "full_init"}
eacsl_assert_data ==
  {<<"register", kind>> : kind \in
     {"bool", "char", "schar", "uchar", "int", "uint", "short", "ushort", "long",
      "ulong", "longlong", "ulonglong", "generic_real", "float", "double",
      "longdouble", "ptr", "array", "fun", "struct", "union", "other"}}
  \cup {<<"data", what>> : what \in {"free_value", "copy_value", "copy_values", "clean"}}
klee_warnings == {"klee_warning", "klee_warning_once"}

(* The functions without a result, or that return without giving one. *)
Silent ==
  {<<"eacsl", fn>> : fn \in eacsl_memory \cup eacsl_initialization}
    \cup eacsl_assert_data
    \cup {<<"void", fn>> : fn \in klee_warnings \cup {"perror"}}
=============================================================================
