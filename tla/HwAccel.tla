------------------------------ MODULE HwAccel ------------------------------
(***************************************************************************)
(* The choice between the processor's AES and SHA256 instructions and the  *)
(* portable code: crypto_aes.c, crypto_aesctr.c, sha256.c and cpusupport.  *)
(*                                                                         *)
(* Each of the three files keeps a choice of its own, hwaccel, made the    *)
(* first time it is needed; cpusupport.h keeps what it found out about     *)
(* the processor.  What an expanded key holds depends on the code which    *)
(* expanded it, and nothing in it says which code that was: every later    *)
(* call relies on the choices being made once, and alike.                  *)
(***************************************************************************)
EXTENDS Naturals

CONSTANT
    Keys        \* the expanded AES keys a program may hold

ASSUME KeysAssumption == "NULL" \notin Keys

VARIABLES
    machine,        \* the build and the processor: what never changes
    present,        \* cpusupport_x_present: features found
    inited,         \* cpusupport_x_init: features looked for
    hwaccel_aes,    \* hwaccel of crypto_aes.c
    hwaccel_ctr,    \* hwaccel of crypto_aesctr.c
    hwaccel_sha,    \* hwaccel of sha256.c
    kexp,           \* the code which expanded each key, or "NULL"
    stream_key,     \* the key of the AES-CTR stream, or "NULL"
    digest,         \* the code which compressed blocks of the digest
    uses,           \* <<code, key's code>> of every use of a key
    aborted         \* abort() was called

hwvars == <<machine, present, inited, hwaccel_aes, hwaccel_ctr, hwaccel_sha,
            kexp, stream_key, digest, uses, aborted>>

AesFeature == {"x86_aesni", "arm_aes"}
ShaFeature == {"x86_shani", "x86_ssse3", "x86_sse2", "arm_sha256"}
Feature == AesFeature \cup ShaFeature

AesCode == {"HW_X86_AESNI", "HW_ARM_AES"}
ShaCode == {"HW_X86_SHANI", "HW_X86_SSE2", "HW_ARM_SHA256"}

(* The features the instructions of each variant of the code need.         *)
Needs(i) ==
    CASE i = "HW_X86_AESNI"  -> {"x86_aesni"}
      [] i = "HW_ARM_AES"    -> {"arm_aes"}
      [] i = "HW_X86_SHANI"  -> {"x86_shani", "x86_ssse3"}
      [] i = "HW_X86_SSE2"   -> {"x86_sse2"}
      [] i = "HW_ARM_SHA256" -> {"arm_sha256"}
      [] OTHER -> {}

(***************************************************************************)
(* A machine: the CPUSUPPORT_ macros defined in the build, whether the     *)
(* build can execute CPUID, the highest level CPUID takes (7 for the       *)
(* extended features), whether the kernel tells the ARM features, the      *)
(* feature bits that are set, and the variants that compute wrong values.  *)
(* "HW_SOFTWARE" in broken is a broken OpenSSL; the portable SHA256 is     *)
(* what the others are compared with, so it is right by definition.  One   *)
(* architecture is built at a time, for either of the two algorithms.      *)
(***************************************************************************)
Machine(features, codes) ==
    [built : SUBSET features, cpuid : BOOLEAN, level : {0, 1, 7},
     hwcap : BOOLEAN, bits : SUBSET features, broken : SUBSET codes]
Machines ==
    Machine({"x86_aesni"}, {"HW_X86_AESNI", "HW_SOFTWARE"})
    \cup Machine({"arm_aes"}, {"HW_ARM_AES", "HW_SOFTWARE"})
    \cup Machine({"x86_shani", "x86_ssse3", "x86_sse2"}, {"HW_X86_SHANI", "HW_X86_SSE2"})
    \cup Machine({"arm_sha256"}, {"HW_ARM_SHA256"})

HwInit ==
    /\ machine \in Machines
    /\ present = [f \in Feature |-> FALSE]
    /\ inited = [f \in Feature |-> FALSE]
    /\ hwaccel_aes = "HW_UNSET" /\ hwaccel_ctr = "HW_UNSET" /\ hwaccel_sha = "HW_UNSET"
    /\ kexp = [k \in Keys |-> "NULL"]
    /\ stream_key = "NULL"
    /\ digest = {}
    /\ uses = {}
    /\ aborted = FALSE

(***************************************************************************)
(* cpusupport: what the _detect functions return, and the cache in front   *)
(* of them.                                                                *)
(***************************************************************************)
x86_detect(f, level) == machine.cpuid /\ machine.level >= level /\ f \in machine.bits
arm_detect(f) == machine.hwcap /\ f \in machine.bits
cpusupport_x86_aesni_detect == x86_detect("x86_aesni", 1)
cpusupport_x86_sse2_detect == x86_detect("x86_sse2", 1)
cpusupport_x86_ssse3_detect == x86_detect("x86_ssse3", 1)
cpusupport_x86_shani_detect == x86_detect("x86_shani", 7)
cpusupport_arm_aes_detect == arm_detect("arm_aes")
cpusupport_arm_sha256_detect == arm_detect("arm_sha256")
detect(f) ==
    CASE f = "x86_aesni"  -> cpusupport_x86_aesni_detect
      [] f = "x86_sse2"   -> cpusupport_x86_sse2_detect
      [] f = "x86_ssse3"  -> cpusupport_x86_ssse3_detect
      [] f = "x86_shani"  -> cpusupport_x86_shani_detect
      [] f = "arm_aes"    -> cpusupport_arm_aes_detect
      [] f = "arm_sha256" -> cpusupport_arm_sha256_detect
      [] OTHER -> FALSE

cpusupport(f) == present[f] \/ (~inited[f] /\ detect(f))

(* After cpusupport_f() was called for each f in asked.                    *)
Looked(asked) ==
    /\ present' = [f \in Feature |-> IF f \in asked THEN cpusupport(f) ELSE present[f]]
    /\ inited' = [f \in Feature |-> inited[f] \/ (f \in asked /\ ~present[f])]

(* CPUSUPPORT_VALIDATE within its #if defined: the choice is i if the      *)
(* processor has what i needs and the check succeeds; or else fall through *)
Built(i) == Needs(i) \subseteq machine.built
CPUSUPPORT_VALIDATE(i, check, otherwise) ==
    IF Built(i) /\ (\A f \in Needs(i) : cpusupport(f)) /\ check THEN i ELSE otherwise

(***************************************************************************)
(* SHA256.  hwtest compares a variant with what SHA256_Transform computes  *)
(* under the choice hw of that moment.                                     *)
(***************************************************************************)
Computes(i) == IF i \in machine.broken /\ i # "HW_SOFTWARE" THEN i ELSE "SHA256"

(* Mutant: the variant is chosen before it is tested, and so compared with *)
(* itself.                                                                 *)
hwtest_chosen(hw, i) == Computes(i) = Computes(i)

hwtest(hw, i) == Computes(hw) = Computes(i)

hwaccel_init_sha ==
    LET hw == "HW_SOFTWARE"
    IN  CPUSUPPORT_VALIDATE("HW_X86_SHANI", hwtest(hw, "HW_X86_SHANI"),
        CPUSUPPORT_VALIDATE("HW_X86_SSE2", hwtest(hw, "HW_X86_SSE2"),
        CPUSUPPORT_VALIDATE("HW_ARM_SHA256", hwtest(hw, "HW_ARM_SHA256"), hw)))

(* The features asked for on the way; && asks for SSSE3 only after SHANI.  *)
AskedSha(chosen) ==
    {f \in machine.built :
        \/ f = "x86_shani" /\ Built("HW_X86_SHANI")
        \/ f = "x86_ssse3" /\ Built("HW_X86_SHANI") /\ cpusupport("x86_shani")
        \/ f = "x86_sse2" /\ chosen # "HW_X86_SHANI"
        \/ f = "arm_sha256"}

(* The code that runs for a choice: HW_UNSET is also the portable code.    *)
Runs(hw) == IF hw = "HW_UNSET" THEN "HW_SOFTWARE" ELSE hw

(* HWACCEL is defined if some variant was built.                           *)
HWACCEL(codes) == \E i \in codes : Built(i)

SHA256_Init_chooses ==
    /\ ~aborted
    /\ IF HWACCEL(ShaCode) /\ hwaccel_sha = "HW_UNSET"
       THEN /\ hwaccel_sha' = hwaccel_init_sha
            /\ Looked(AskedSha(hwaccel_sha'))
       ELSE UNCHANGED <<hwaccel_sha, present, inited>>
    /\ digest' = {}
    /\ UNCHANGED <<machine, hwaccel_aes, hwaccel_ctr, kexp, stream_key, uses, aborted>>

SHA256_Transform_runs ==
    /\ ~aborted
    /\ HWACCEL(ShaCode) => hwaccel_sha # "HW_UNSET"     \* SHA256_Init was called
    /\ digest' = digest \cup {Runs(hwaccel_sha)}
    /\ UNCHANGED <<machine, present, inited, hwaccel_aes, hwaccel_ctr, hwaccel_sha,
                   kexp, stream_key, uses, aborted>>

(***************************************************************************)
(* AES.  A variant is tested against known values; the test of a hardware  *)
(* variant allocates its expanded key, which fails for those in failed.    *)
(***************************************************************************)
functest(i, failed) == i \notin machine.broken /\ i \notin failed

hwaccel_init_aes(failed) ==
    CPUSUPPORT_VALIDATE("HW_X86_AESNI", functest("HW_X86_AESNI", failed),
    CPUSUPPORT_VALIDATE("HW_ARM_AES", functest("HW_ARM_AES", failed), "HW_SOFTWARE"))

(* The choice of crypto_aes.c is hw from now on; or the program aborts, if *)
(* no variant is used and OpenSSL fails its test.                          *)
Choose(hw) ==
    IF HWACCEL(AesCode) /\ hwaccel_aes = "HW_UNSET"
    THEN /\ \E failed \in SUBSET AesCode : hw = hwaccel_init_aes(failed)
         /\ Looked(AesFeature \cap machine.built)
         /\ hwaccel_aes' = hw
         /\ aborted' = (hw = "HW_SOFTWARE" /\ ~functest("HW_SOFTWARE", {}))
    ELSE /\ hw = hwaccel_aes
         /\ UNCHANGED <<present, inited, hwaccel_aes, aborted>>

(* Mutant: the key is expanded by OpenSSL before the choice is made.       *)
crypto_aes_key_expand_early(k) ==
    /\ ~aborted
    /\ kexp[k] = "NULL"
    /\ \E hw \in AesCode \cup {"HW_SOFTWARE", "HW_UNSET"} :
        /\ Choose(hw)
        /\ \/ ~aborted' /\ kexp' = [kexp EXCEPT ![k] = Runs(hwaccel_aes)]
           \/ UNCHANGED kexp
    /\ UNCHANGED <<machine, hwaccel_ctr, hwaccel_sha, stream_key, digest, uses>>

(* crypto_aes_key_expand returns a key, or NULL if an allocation fails.    *)
crypto_aes_key_expand(k) ==
    /\ ~aborted
    /\ kexp[k] = "NULL"
    /\ \E hw \in AesCode \cup {"HW_SOFTWARE", "HW_UNSET"} :
        /\ Choose(hw)
        /\ \/ ~aborted' /\ kexp' = [kexp EXCEPT ![k] = Runs(hw)]
           \/ UNCHANGED kexp
    /\ UNCHANGED <<machine, hwaccel_ctr, hwaccel_sha, stream_key, digest, uses>>

crypto_aes_encrypt_block(k) ==
    /\ ~aborted
    /\ kexp[k] # "NULL"
    /\ uses' = uses \cup {<<Runs(hwaccel_aes), kexp[k]>>}
    /\ UNCHANGED <<machine, present, inited, hwaccel_aes, hwaccel_ctr, hwaccel_sha,
                   kexp, stream_key, digest, aborted>>

(* The key is cleared and freed as the size which the chosen code knows.   *)
crypto_aes_key_free(k) ==
    /\ ~aborted
    /\ kexp[k] # "NULL" /\ stream_key # k
    /\ uses' = uses \cup {<<Runs(hwaccel_aes), kexp[k]>>}
    /\ kexp' = [kexp EXCEPT ![k] = "NULL"]
    /\ UNCHANGED <<machine, present, inited, hwaccel_aes, hwaccel_ctr, hwaccel_sha,
                   stream_key, digest, aborted>>

(* The choice of crypto_aesctr.c, when that of crypto_aes.c is hw: the     *)
(* value of crypto_aes_can_use_intrinsics tells the variants apart.        *)
crypto_aes_can_use_intrinsics(hw) ==
    IF hw = "HW_X86_AESNI" THEN 1 ELSE IF hw = "HW_ARM_AES" THEN 2 ELSE 0

(* Mutant: the processor is asked, and not crypto_aes.c.                   *)
hwaccel_init_ctr_cpu(hw) ==
    IF cpusupport("x86_aesni") /\ Built("HW_X86_AESNI") THEN "HW_X86_AESNI"
    ELSE IF cpusupport("arm_aes") /\ Built("HW_ARM_AES") THEN "HW_ARM_AES"
    ELSE "HW_SOFTWARE"

hwaccel_init_ctr(hw) ==
    CASE crypto_aes_can_use_intrinsics(hw) = 1 -> "HW_X86_AESNI"
      [] crypto_aes_can_use_intrinsics(hw) = 2 -> "HW_ARM_AES"
      [] OTHER -> "HW_SOFTWARE"

crypto_aesctr_init2(k) ==
    /\ ~aborted
    /\ kexp[k] # "NULL"
    /\ stream_key' = k
    /\ IF HWACCEL(AesCode) /\ hwaccel_ctr = "HW_UNSET"
       THEN \E hw \in AesCode \cup {"HW_SOFTWARE", "HW_UNSET"} :
                Choose(hw) /\ hwaccel_ctr' = hwaccel_init_ctr(hw)
       ELSE UNCHANGED <<present, inited, hwaccel_aes, hwaccel_ctr, aborted>>
    /\ UNCHANGED <<machine, hwaccel_sha, kexp, digest, uses>>

(* Fewer than 16 bytes, or no hardware: crypto_aes_encrypt_block makes the *)
(* key stream.  Otherwise the variant which crypto_aesctr.c has chosen.    *)
crypto_aesctr_stream(short) ==
    /\ ~aborted
    /\ stream_key \in Keys
    /\ uses' = uses \cup
           {<<IF short \/ Runs(hwaccel_ctr) = "HW_SOFTWARE" THEN Runs(hwaccel_aes)
              ELSE hwaccel_ctr, kexp[stream_key]>>}
    /\ UNCHANGED <<machine, present, inited, hwaccel_aes, hwaccel_ctr, hwaccel_sha,
                   kexp, stream_key, digest, aborted>>

crypto_aesctr_free ==
    /\ ~aborted
    /\ stream_key' = "NULL"
    /\ UNCHANGED <<machine, present, inited, hwaccel_aes, hwaccel_ctr, hwaccel_sha,
                   kexp, digest, uses, aborted>>

HwNext ==
    \/ SHA256_Init_chooses \/ SHA256_Transform_runs
    \/ \E k \in Keys :
          \/ crypto_aes_key_expand(k) \/ crypto_aes_encrypt_block(k)
          \/ crypto_aes_key_free(k) \/ crypto_aesctr_init2(k)
    \/ \E short \in BOOLEAN : crypto_aesctr_stream(short)
    \/ crypto_aesctr_free

HwSpec == HwInit /\ [][HwNext]_hwvars

(***************************************************************************)
(* Properties.                                                             *)
(***************************************************************************)
Chooses(codes) == codes \cup {"HW_SOFTWARE", "HW_UNSET"}
HwTypeOK ==
    /\ machine \in Machines
    /\ present \in [Feature -> BOOLEAN] /\ inited \in [Feature -> BOOLEAN]
    /\ hwaccel_aes \in Chooses(AesCode) /\ hwaccel_ctr \in Chooses(AesCode)
    /\ hwaccel_sha \in Chooses(ShaCode)
    /\ kexp \in [Keys -> AesCode \cup {"HW_SOFTWARE", "NULL"}]
    /\ stream_key \in Keys \cup {"NULL"}
    /\ digest \subseteq ShaCode \cup {"HW_SOFTWARE"}
    /\ aborted \in BOOLEAN

(* A variant that was built, runs on this processor and computes what the  *)
(* algorithm says.                                                         *)
Trusted(i) ==
    /\ Built(i)
    /\ \A f \in Needs(i) : detect(f)
    /\ i \notin machine.broken

(* A key is read, and freed, only by the code that expanded it: the        *)
(* choices of crypto_aes.c and crypto_aesctr.c never differ, although each *)
(* file makes its own and keeps it.                                        *)
KeysReadByTheirCode == \A u \in uses : u[1] = u[2]

(* That code is a variant built for this processor which passed its test,  *)
(* or OpenSSL, which also passed it if any variant was built.              *)
AesCodeIsTrusted ==
    \A u \in uses :
        \/ u[1] \in AesCode /\ Trusted(u[1])
        \/ u[1] = "HW_SOFTWARE" /\ (HWACCEL(AesCode) => "HW_SOFTWARE" \notin machine.broken)

(* The blocks of one digest are compressed by one variant, which is right, *)
(* and the portable code is left only for one that is.                     *)
DigestByOneCode ==
    /\ \A i, j \in digest : i = j
    /\ \A i \in digest :
        IF i = "HW_SOFTWARE" THEN \A j \in ShaCode : ~Trusted(j)
        ELSE i \in ShaCode /\ Trusted(i)

(* The three together: the choices of crypto_aes.c, crypto_aesctr.c and    *)
(* sha256.c agree and can be relied on, whatever the build and the         *)
(* processor, and whichever allocations fail during the self-tests.        *)
OneImplementation == KeysReadByTheirCode /\ AesCodeIsTrusted /\ DigestByOneCode
=============================================================================
