------------------------------ MODULE ChainTypes ------------------------------
(***************************************************************************)
(* The vocabulary shared by the kernel programs (bpf/chainscope.h) and the *)
(* userspace (internal/types/types.go), and the string classifiers of both *)
(* sides.  A basename, a path or an environment key is an atom: each       *)
(* classifier is the set of the atoms its character tests accept, and the  *)
(* atoms are chosen so that every test of the code has members on both     *)
(* sides of it.                                                            *)
(***************************************************************************)
EXTENDS Naturals

PHASE_UNKNOWN  == "unknown"
PHASE_DOWNLOAD == "download"
PHASE_EXTRACT  == "extract"
PHASE_BUILD    == "build"
PHASE_COMPILE  == "compile"
PHASE_LINK     == "link"
PHASE_INSTALL  == "install"
PHASE_POSTINST == "postinstall"

Phases == {PHASE_UNKNOWN, PHASE_DOWNLOAD, PHASE_EXTRACT, PHASE_BUILD,
           PHASE_COMPILE, PHASE_LINK, PHASE_INSTALL, PHASE_POSTINST}

SEV_INFO     == 0
SEV_LOW      == 1
SEV_MEDIUM   == 2
SEV_HIGH     == 3
SEV_CRITICAL == 4

Severities == SEV_INFO .. SEV_CRITICAL

EventTypes == {"exec", "file_open", "net_connect", "memfd_create",
               "execveat_anon", "file_write", "chmod", "dns_lookup", "bpf_load"}

-------------------------------------------------------------------------------
(* Executable basenames.                                                    *)

PackageManagers == {"pip", "pip3", "pipenv", "npm", "yarn", "pnpm", "cargo",
                    "gem", "apt", "apt-get", "dpkg"}
BuildTools      == {"make", "cmake", "ninja", "meson", "setup.py"}
Compilers       == {"gcc", "g++", "cc1", "clang", "clang++", "rustc"}
Linkers         == {"ld", "lld", "gold"}
PostinstScripts == {"postinst", "postinst.sh"}
Shells          == {"sh", "bash", "dash", "zsh", "fish", "ksh", "csh"}

phase_from_comm(c) ==
  CASE c \in PackageManagers -> PHASE_DOWNLOAD
    [] c \in BuildTools      -> PHASE_BUILD
    [] c \in Compilers       -> PHASE_COMPILE
    [] c \in Linkers         -> PHASE_LINK
    [] c \in PostinstScripts -> PHASE_POSTINST
    [] OTHER                 -> PHASE_UNKNOWN

is_shell_comm(c) == c \in Shells

-------------------------------------------------------------------------------
(* Paths.  The kernel programs pre-filter on the first group of tests, the  *)
(* detector applies the second group to what got through.                   *)

is_temp_path(p) == p \in {"/tmp/x", "/dev/shm/x", "/var/tmp/x", "/run/x"}

is_install_path(p) ==
  p \in {"/usr/bin/x", "/usr/lib/x", "/bin/x", "/sbin/x", "/etc/cron.d/x",
         "/etc/shadow", "/etc/passwd"}

is_sensitive_read_path(p) ==
  p \in {"/etc/shadow", "/etc/passwd", "/root/.ssh/id_rsa", "/root/.bashrc",
         "/home/u/.ssh/id_rsa", "/home/u/.aws/credentials",
         "/home/u/.gnupg/key", "/home/u/.env"}

isInstallPath(p) ==
  p \in {"/usr/bin/x", "/bin/x", "/sbin/x", "/etc/cron.d/x", "/etc/shadow",
         "/etc/passwd"}

isSensitivePath(p) ==
  p \in {"/etc/shadow", "/root/.ssh/id_rsa", "/home/u/.ssh/id_rsa",
         "/home/u/.aws/credentials", "/home/u/.gnupg/key", "/home/u/.env",
         "/home/u/.env.local", "/home/u/server.pem"}

-------------------------------------------------------------------------------
(* Environment keys.  check_env_flags maps a key to the flag it raises;     *)
(* ENV_FLAG_* bits are members of a set.                                    *)

LoaderEnvKeys     == {"LD_PRELOAD", "LD_LIBRARY_PATH"}
CredentialEnvKeys == {"AWS_ACCESS_KEY_ID", "GITHUB_TOKEN", "NPM_TOKEN",
                      "PYPI_TOKEN", "CARGO_REGISTRY_TOKEN", "GENERIC_SEC"}

check_env_flags(e) ==
  CASE e \in LoaderEnvKeys \cup CredentialEnvKeys -> {e}
    [] e \in {"MY_SECRET", "DB_PASSWD"}           -> {"GENERIC_SEC"}
    [] OTHER                                      -> {}
===============================================================================
