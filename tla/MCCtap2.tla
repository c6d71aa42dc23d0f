------------------------------- MODULE MCCtap2 -------------------------------
(***************************************************************************)
(* Small instances of Ctap2: which operations the clients of a run make.   *)
(***************************************************************************)
EXTENDS Ctap2Inv

CONSTANTS c1, c2, s1, s2

Plain(name) == [NoOp EXCEPT !.name = name]
WithPin(name, pin) == [NoOp EXCEPT !.name = name, !.pin = pin]
Probe(list) == [NoOp EXCEPT !.name = "probe", !.allow = list]
SecretOf(cred, salts, pin, verify) ==
  [NoOp EXCEPT !.name = "secret", !.allow = {cred}, !.salts = salts, !.pin = pin,
               !.verify = verify]

\* One device opened once, nothing unplugged.
Once(ops, calls) == [ops |-> ops, calls |-> calls, opens |-> 1, cycles |-> 0]
Twice(ops, calls) == [Once(ops, calls) EXCEPT !.opens = 2]
Unplugged(ops, calls) == [Once(ops, calls) EXCEPT !.opens = 2, !.cycles = 1]

\* Everything that keeps nothing for the next operation; credential 2 is not on
\* the device.
OneShots ==
  {Plain("info"), Plain("retries"), Plain("reset"), Plain("wink"), Probe({1, 2}), Probe({2}),
   Probe({1}), Plain("assertion"), Plain("make"), WithPin("make", "right"),
   WithPin("make", "wrong"), [WithPin("make", "right") EXCEPT !.long = TRUE],
   SecretOf(1, <<s1>>, "none", FALSE), SecretOf(1, <<s1>>, "right", FALSE),
   SecretOf(1, <<s1, s2>>, "none", TRUE)}

\* The operations whose replies can be taken for one another's.
VerifiedSecrets ==
  {SecretOf(1, <<s1>>, "none", TRUE), SecretOf(1, <<s2>>, "right", TRUE),
   SecretOf(3, <<s1>>, "none", TRUE)}

PinOperations ==
  {WithPin("assertion", "right"), WithPin("assertion", "wrong"), WithPin("make", "right"),
   SecretOf(1, <<s1>>, "wrong", FALSE)}

Sessions == {Plain("session"), WithPin("token", "right"), WithPin("token", "wrong")}

Walks == {Plain("assertion"), Plain("next"), Probe({1, 2})}

OnePlans ==
  {Twice(OneShots, 3),
   Unplugged(PinOperations \cup VerifiedSecrets, 3),
   Unplugged(Sessions \cup {Plain("with")}, 4),
   Twice(Walks, 5),
   Unplugged({Plain("list"), Plain("info"), Plain("reset"), Plain("make")}, 3)}

Contending ==
  {Plain("session"), WithPin("token", "right"), WithPin("token", "wrong"),
   SecretOf(1, <<s1, s2>>, "right", FALSE), SecretOf(1, <<s1>>, "wrong", FALSE),
   Plain("reset")}

PairPlans ==
  {Twice(Contending, 2), Twice({Plain("assertion"), Plain("next")}, 3),
   Twice({Plain("list"), Plain("info")}, 2)}

SessionPlans == {Once(Sessions, 3)}

InfoPlans == {Once({Plain("info"), Plain("reset")}, 3)}
=============================================================================
